---- MODULE Spec2Model ----
(***************************************************************************)
(* ShakeyBot: the UCI driver thread, its single background search worker   *)
(* (apps/fast_engine_uci.cpp), the iterative deepener that the worker runs *)
(* (src/engine.cpp) and the transposition table (src/transposition.cpp).   *)
(*                                                                         *)
(* Spec    the driver thread interleaved with the worker threads           *)
(* SpecTT  the transposition table under store / probe / clear / resize    *)
(* SpecID  one call of search_position_impl: iterations, aspiration tries  *)
(* SpecFn  the pure functions: table sizing, time budget, mate formatting  *)
(* SpecCmd the command loop of main() with no search running               *)
(* SpecPv  one call of build_pv_uci, a step per turn of its loop           *)
(***************************************************************************)
EXTENDS Integers, Sequences, FiniteSets, TLC

VARIABLES
    dpc,      \* driver thread: position inside main() / the handler it runs
    dctx,     \* driver thread: which stop sequence runs ("hs" handle_stop, "ss" start_search_async)
    dcmd,     \* driver thread: the command line being handled
    dloc,     \* driver thread: locals of the running handler
    config,   \* main(): EngineConfig config
    engine,   \* main(): std::unique_ptr<Engine> engine
    board,    \* main(): chess::Board board (the authoritative board)
    w,        \* main(): SearchWorker worker
    thr,      \* the threads created by start_search_async, by thread id
    tt,       \* a TranspositionTable: table_, mask_, capacity_entries_, gen_
    last,     \* the last operation made on tt, with its argument and its result
    sp,       \* one call of Engine::search_position_impl: its locals and its place
    calc,     \* a call of a pure function: its arguments and result, or its frame
    cli       \* the command loop of main() on its own: config, board, output, alive

uvars == <<dpc, dctx, dcmd, dloc, config, engine, board, w, thr>>
tvars == <<tt, last>>
xvars == <<sp, calc, cli>>
vars == <<dpc, dctx, dcmd, dloc, config, engine, board, w, thr, tt, last, sp, calc, cli>>

(***************************************************************************)
(* Bounds of the model.                                                    *)
(***************************************************************************)
\* thread ids available at one time (an id is free again once its thread is joined)
MaxThreads == 2
\* iteration depths explored per search: every maximum depth is cut to this
DepthCap == 2

(***************************************************************************)
(* Program constants.                                                      *)
(***************************************************************************)
NO_MOVE == 0
ABS_MAX_DEPTH == 128
search_depth == 3
max_depth_timed == 64
default_hash_mb == 256

ThreadIds == 1..MaxThreads

Min(a, b) == IF a < b THEN a ELSE b

(***************************************************************************)
(* The rules library (chess.hpp) is an external collaborator.  It is       *)
(* stood for by a three-position game: position 0 is the start position,   *)
(* position 2 has no legal move, move 3 is legal nowhere (a move that a    *)
(* colliding transposition entry could hand back).                         *)
(***************************************************************************)
Positions == 0..2
Moves == 1..3
startpos == 0

legalmoves(p) ==
    CASE p = 0 -> <<1, 2>>
      [] p = 1 -> <<2>>
      [] OTHER -> <<>>

makeMove(p, m) ==
    CASE p = 0 /\ m = 1 -> 1
      [] p = 0 /\ m = 2 -> 2
      [] p = 1 /\ m = 2 -> 0
      [] OTHER -> p

sideToMove(p) == IF p % 2 = 0 THEN "w" ELSE "b"

Range(s) == {s[k] : k \in 1..Len(s)}

(***************************************************************************)
(* SearchLimits and the `go` lines fed to the driver.                      *)
(***************************************************************************)
SearchLimits ==
    [depth |-> 0, movetime_ms |-> -1, wtime_ms |-> -1, btime_ms |-> -1,
     winc_ms |-> 0, binc_ms |-> 0, movestogo |-> -1,
     infinite |-> FALSE, ponder |-> FALSE]

\* parse_go_limits on: go depth 1 / go movetime 50 / go infinite / go ponder /
\* go ponder depth 1 / go ponder infinite
GoLines ==
    { [SearchLimits EXCEPT !.depth = 1],
      [SearchLimits EXCEPT !.movetime_ms = 50],
      [SearchLimits EXCEPT !.infinite = TRUE],
      [SearchLimits EXCEPT !.ponder = TRUE],
      [SearchLimits EXCEPT !.ponder = TRUE, !.depth = 1],
      [SearchLimits EXCEPT !.ponder = TRUE, !.infinite = TRUE] }

\* compute_time_budget, the part deciding whether a budget exists
budget_enabled(limits, stm) ==
    \/ limits.movetime_ms >= 0
    \/ (IF stm = "w" THEN limits.wtime_ms ELSE limits.btime_ms) >= 0

\* Engine::search_position(board, limits, ...): which search_position_impl call is made
SearchKind(limits, stm) ==
    IF limits.depth > 0 THEN "depth"
    ELSE IF limits.infinite \/ limits.ponder THEN "infinite"
    ELSE IF budget_enabled(limits, stm) THEN "timed"
    ELSE "default"

\* the max_depth argument of search_position_impl, cut to DepthCap
MaxDepthOf(limits, stm) ==
    LET k == SearchKind(limits, stm)
        d == CASE k = "depth" -> limits.depth
               [] k = "infinite" -> ABS_MAX_DEPTH
               [] k = "timed" -> max_depth_timed
               [] OTHER -> search_depth
    IN Min(d, DepthCap)

\* want_infinite taken from limits.infinite alone
KeepSearching_infinite_only(limits, stm) == limits.depth <= 0 /\ limits.infinite

\* the keep_searching_at_max_depth argument (external_stop is never null in the worker)
KeepSearching(limits, stm) == SearchKind(limits, stm) = "infinite"

TimeEnabled(limits, stm) == SearchKind(limits, stm) = "timed"

(***************************************************************************)
(* Threads.                                                                *)
(***************************************************************************)
NoThread ==
    [pc |-> "none", pondering_mode |-> FALSE, limits |-> SearchLimits,
     search_board |-> 0, cfg_ponder |-> FALSE,
     cur_depth |-> 1, has_best |-> FALSE, best_move |-> NO_MOVE,
     reason |-> "None", best |-> NO_MOVE,
     \* history of the thread, kept for the properties
     joined |-> FALSE, bm |-> 0, bmMove |-> NO_MOVE, infos |-> 0,
     endCause |-> "none", stopBy |-> "none",
     stopReq |-> FALSE, internalReq |-> FALSE,
     afterJoin |-> FALSE, viaPonderhit |-> FALSE, origLimits |-> SearchLimits]

\* a thread that was created and has not been joined
Live(i) == thr[i].pc # "none" /\ ~thr[i].joined
LiveThreads == {i \in ThreadIds : Live(i)}
\* a thread whose function has not returned yet
Running(i) == thr[i].pc \notin {"none", "done"}

Stm(i) == sideToMove(thr[i].search_board)

NoCmd == [name |-> "none", limits |-> SearchLimits, pos |-> 0, opt |-> "none", val |-> FALSE]
NoLoc == [limits |-> SearchLimits, pondering_mode |-> FALSE, ponder_move |-> NO_MOVE,
          apply_ponder_move |-> FALSE,
          \* history of the handler, kept for the properties
          joinedPrev |-> FALSE, viaPonderhit |-> FALSE, origLimits |-> SearchLimits]

InternalCmds == {"setoption", "position", "ucinewgame", "go", "quit"}

UciInit ==
    /\ dpc = "idle"
    /\ dctx = "none"
    /\ dcmd = NoCmd
    /\ dloc = NoLoc
    /\ config = [ponder |-> FALSE, hash_mb |-> default_hash_mb]
    /\ engine = [exists |-> FALSE, tt_mb |-> 0]
    /\ board = startpos
    /\ w = [stop |-> FALSE, stop_reason |-> "None", suppress_bestmove |-> FALSE,
            th |-> 0, running |-> FALSE, pondering |-> FALSE,
            last_go_ponder_limits |-> SearchLimits, have_go_ponder_limits |-> FALSE,
            last_ponder_move |-> NO_MOVE, have_last_ponder_move |-> FALSE]
    /\ thr = [i \in ThreadIds |-> NoThread]

(***************************************************************************)
(* The driver thread: main() and its handlers.                             *)
(***************************************************************************)
joinable == w.th # 0

\* handle_stop's arguments at each call site of main() and handle_ponderhit
StopReasonOf(name) ==
    CASE name = "stop" -> "StopCmd"
      [] name = "ponderhit" -> "PonderHit"
      [] OTHER -> "Internal"

\* every handle_stop call passing suppress_output = true
SuppressOutputAlways(name) == TRUE

SuppressOutputOf(name) == name # "stop"

\* where main() continues once handle_stop has returned
AfterHandleStop(name) ==
    CASE name \in {"setoption", "ucinewgame", "position"} -> "apply"
      [] name = "ponderhit" -> "ph_sync"
      [] name = "quit" -> "exited"
      [] OTHER -> "idle"

\* history: a command that stops the current worker is noted on that worker
NoteRequest(name) ==
    IF joinable
    THEN [thr EXCEPT ![w.th] =
            [@ EXCEPT !.stopReq = @ \/ (name = "stop" /\ thr[w.th].bm = 0),
                      !.internalReq = @ \/ (name \in InternalCmds)]]
    ELSE thr

\* main(): the lines "setoption ...", "ucinewgame", "position ...", "stop", "quit",
\* each of which first calls handle_stop
read_command(c) ==
    /\ dpc = "idle"
    /\ dcmd' = c
    /\ dctx' = "hs"
    /\ dpc' = "hs_begin"
    /\ thr' = NoteRequest(c.name)
    /\ UNCHANGED <<tvars, xvars, dloc, config, engine, board, w>>

StopLines ==
    {[NoCmd EXCEPT !.name = n] : n \in {"ucinewgame", "stop", "quit"}}
    \cup {[NoCmd EXCEPT !.name = "position", !.pos = p] : p \in Positions}
    \cup {[NoCmd EXCEPT !.name = "setoption", !.opt = "Ponder", !.val = v] : v \in BOOLEAN}
    \cup {[NoCmd EXCEPT !.name = "setoption", !.opt = "Hash"]}

\* a join_if_running that leaves the three flags as they are
ResetWorker_keeps_flags(ww) ==
    [ww EXCEPT !.running = FALSE, !.pondering = FALSE]

\* the flags and state handle_stop / join_if_running leave behind
ResetWorker(ww) ==
    [ww EXCEPT !.stop = FALSE, !.stop_reason = "None", !.suppress_bestmove = FALSE,
               !.running = FALSE, !.pondering = FALSE]

Resume(pc) ==
    /\ dpc' = pc
    /\ dctx' = IF pc \in {"idle", "exited"} THEN "none" ELSE dctx
    /\ dcmd' = IF pc \in {"idle", "exited"} THEN NoCmd ELSE dcmd
    /\ dloc' = IF pc \in {"idle", "exited"} THEN NoLoc ELSE dloc

\* handle_stop: the joinable test and the store of stop_reason
handle_stop_begin ==
    /\ dpc = "hs_begin"
    /\ IF joinable
       THEN /\ w' = [w EXCEPT !.stop_reason = StopReasonOf(dcmd.name)]
            /\ dpc' = "st_suppress"
            /\ UNCHANGED <<dctx, dcmd, dloc>>
       ELSE /\ w' = ResetWorker(w)
            /\ Resume(AfterHandleStop(dcmd.name))
    /\ UNCHANGED <<tvars, xvars, config, engine, board, thr>>

\* start_search_async without lines 664-670: the previous worker is left running
start_search_begin_nojoin ==
    /\ dpc = "ss_begin"
    /\ w' = w
    /\ dpc' = "ss_spawn"
    /\ UNCHANGED <<tvars, xvars, dctx, dcmd, dloc, config, engine, board, thr>>

\* start_search_async: the joinable test and the store of stop_reason
start_search_begin ==
    /\ dpc = "ss_begin"
    /\ IF joinable
       THEN /\ w' = [w EXCEPT !.stop_reason = "Internal"]
            /\ dpc' = "st_suppress"
       ELSE /\ w' = w
            /\ dpc' = "ss_spawn"
    /\ UNCHANGED <<tvars, xvars, dctx, dcmd, dloc, config, engine, board, thr>>

\* suppress_bestmove never raised
SuppressNever == FALSE

\* w.suppress_bestmove.store(...)
SuppressStored == IF dctx = "hs" THEN SuppressOutputOf(dcmd.name) ELSE TRUE

store_suppress ==
    /\ dpc = "st_suppress"
    /\ w' = [w EXCEPT !.suppress_bestmove = SuppressStored]
    /\ dpc' = "st_request"
    /\ UNCHANGED <<tvars, xvars, dctx, dcmd, dloc, config, engine, board, thr>>

\* SearchWorker::request_stop
request_stop ==
    /\ dpc = "st_request"
    /\ w' = [w EXCEPT !.stop = TRUE]
    /\ dpc' = "st_join"
    /\ UNCHANGED <<tvars, xvars, dctx, dcmd, dloc, config, engine, board, thr>>

\* a join that does not wait for the thread
JoinReturnsAtOnce(i) == TRUE

\* std::thread::join returns once the thread's function has returned
JoinReturns(i) == thr[i].pc = "done"

Joined(t) == IF t.pc = "done" THEN NoThread ELSE [t EXCEPT !.joined = TRUE]

\* w.th.join() and what follows it in handle_stop / start_search_async
join ==
    /\ dpc = "st_join"
    /\ JoinReturns(w.th)
    /\ thr' = [thr EXCEPT ![w.th] = Joined(@)]
    /\ LET next == IF dctx = "hs" THEN AfterHandleStop(dcmd.name) ELSE "ss_spawn"
           ends == next \in {"idle", "exited"}
       IN /\ w' = IF dctx = "hs" THEN [ResetWorker(w) EXCEPT !.th = 0]
                                  ELSE [w EXCEPT !.th = 0]
          /\ dpc' = next
          /\ dctx' = IF ends THEN "none" ELSE dctx
          /\ dcmd' = IF ends THEN NoCmd ELSE dcmd
          /\ dloc' = IF ends THEN NoLoc ELSE [dloc EXCEPT !.joinedPrev = TRUE]
    /\ UNCHANGED <<tvars, xvars, config, engine, board>>

\* handle_setoption (the options Ponder and Hash), after handle_stop
handle_setoption ==
    /\ dpc = "apply"
    /\ dcmd.name = "setoption"
    /\ IF dcmd.opt = "Ponder"
       THEN /\ config' = [config EXCEPT !.ponder = dcmd.val]
            /\ engine' = engine
       ELSE /\ config' = [config EXCEPT !.hash_mb = 16]
            /\ engine' = IF engine.exists THEN [engine EXCEPT !.tt_mb = 16] ELSE engine
    /\ Resume("idle")
    /\ UNCHANGED <<tvars, xvars, board, w, thr>>

\* main(): ucinewgame after handle_stop: board reset, reset_search_heuristics,
\* engine->clearTT, clear_eval_cache
handle_ucinewgame ==
    /\ dpc = "apply"
    /\ dcmd.name = "ucinewgame"
    /\ board' = startpos
    /\ Resume("idle")
    /\ UNCHANGED <<tvars, xvars, config, engine, w, thr>>

\* handle_position after handle_stop
handle_position ==
    /\ dpc = "apply"
    /\ dcmd.name = "position"
    /\ board' = dcmd.pos
    /\ Resume("idle")
    /\ UNCHANGED <<tvars, xvars, config, engine, w, thr>>

\* what the root search may report as its best move: find_best_move is not part of
\* the sources at hand, so its move is left open (any 16-bit move id)
RootSearchMoves(p) == Moves

\* main(): the line "go ..." up to the call of start_search_async
go(line) ==
    /\ dpc = "idle"
    /\ LET limits == IF line.ponder /\ ~config.ponder
                     THEN [line EXCEPT !.ponder = FALSE] ELSE line
           stored == IF w.have_last_ponder_move THEN w.last_ponder_move ELSE NO_MOVE
       IN /\ dcmd' = [NoCmd EXCEPT !.name = "go", !.limits = limits]
          /\ dloc' = [NoLoc EXCEPT !.limits = limits,
                                   !.pondering_mode = limits.ponder,
                                   !.ponder_move = IF limits.ponder THEN stored ELSE NO_MOVE,
                                   !.apply_ponder_move = limits.ponder]
          /\ dpc' = IF limits.ponder /\ stored = NO_MOVE THEN "go_guess" ELSE "ss_begin"
    /\ dctx' = "ss"
    /\ engine' = IF engine.exists THEN engine
                 ELSE [exists |-> TRUE, tt_mb |-> config.hash_mb]
    /\ thr' = NoteRequest("go")
    /\ UNCHANGED <<tvars, xvars, config, board, w>>

\* main(): go ponder without a stored ponder move: the driver's own depth-1 search
\* engine->search_position(board, 1, pr, nullptr)
go_guess ==
    /\ dpc = "go_guess"
    /\ \E m \in (IF legalmoves(board) = <<>> THEN {NO_MOVE} ELSE RootSearchMoves(board)) :
          dloc' = [dloc EXCEPT !.ponder_move = m]
    /\ dpc' = "ss_begin"
    /\ UNCHANGED <<tvars, xvars, dctx, dcmd, config, engine, board, w, thr>>

\* a thread id that start_search_async can hand to a new thread
FreeIds == {i \in ThreadIds : thr[i].pc = "none"}

\* start_search_async from the flag reset to the creation of the thread
start_search_spawn ==
    /\ dpc = "ss_spawn"
    /\ FreeIds # {}
    /\ LET id == CHOOSE i \in FreeIds : \A j \in FreeIds : i <= j
           pm == dloc.ponder_move
           sb == IF dloc.apply_ponder_move /\ pm # NO_MOVE /\ pm \in Range(legalmoves(board))
                 THEN makeMove(board, pm) ELSE board
       IN /\ w' = [w EXCEPT !.stop = FALSE, !.stop_reason = "None",
                            !.suppress_bestmove = FALSE,
                            !.running = TRUE, !.pondering = dloc.pondering_mode,
                            !.last_go_ponder_limits =
                                IF dloc.pondering_mode THEN dloc.limits ELSE @,
                            !.have_go_ponder_limits = @ \/ dloc.pondering_mode,
                            !.th = id]
          /\ thr' = [thr EXCEPT ![id] =
                       [NoThread EXCEPT !.pc = "loop",
                                        !.pondering_mode = dloc.pondering_mode,
                                        !.limits = dloc.limits,
                                        !.search_board = sb,
                                        !.cfg_ponder = config.ponder,
                                        !.afterJoin = dloc.joinedPrev,
                                        !.viaPonderhit = dloc.viaPonderhit,
                                        !.origLimits = dloc.origLimits]]
    /\ Resume("idle")
    /\ UNCHANGED <<tvars, xvars, config, engine, board>>

\* handle_ponderhit up to its call of handle_stop (main() calls it only with an engine)
handle_ponderhit ==
    /\ dpc = "idle"
    /\ engine.exists
    /\ IF w.pondering /\ joinable /\ w.have_go_ponder_limits
       THEN /\ dcmd' = [NoCmd EXCEPT !.name = "ponderhit"]
            /\ dloc' = [NoLoc EXCEPT
                          !.limits = w.last_go_ponder_limits,
                          !.ponder_move = IF w.have_last_ponder_move
                                          THEN w.last_ponder_move ELSE NO_MOVE,
                          !.viaPonderhit = TRUE,
                          !.origLimits = thr[w.th].limits]
            /\ dctx' = "hs"
            /\ dpc' = "hs_begin"
       ELSE UNCHANGED <<dcmd, dloc, dctx, dpc>>
    /\ UNCHANGED <<tvars, xvars, config, engine, board, w, thr>>

\* handle_ponderhit without line 863: saved_limits.infinite is kept
ponderhit_sync_keeps_infinite ==
    /\ dpc = "ph_sync"
    /\ LET pm == dloc.ponder_move
       IN board' = IF pm # NO_MOVE /\ pm \in Range(legalmoves(board))
                   THEN makeMove(board, pm) ELSE board
    /\ dloc' = [dloc EXCEPT !.limits = [@ EXCEPT !.ponder = FALSE],
                            !.pondering_mode = FALSE,
                            !.ponder_move = NO_MOVE,
                            !.apply_ponder_move = FALSE]
    /\ w' = [w EXCEPT !.pondering = FALSE, !.running = TRUE]
    /\ dctx' = "ss"
    /\ dpc' = "ss_begin"
    /\ UNCHANGED <<tvars, xvars, dcmd, config, engine, thr>>

\* handle_ponderhit after handle_stop: the board sync and the limits of the
\* replacement search, up to its call of start_search_async
ponderhit_sync ==
    /\ dpc = "ph_sync"
    /\ LET pm == dloc.ponder_move
       IN board' = IF pm # NO_MOVE /\ pm \in Range(legalmoves(board))
                   THEN makeMove(board, pm) ELSE board
    /\ dloc' = [dloc EXCEPT !.limits = [@ EXCEPT !.ponder = FALSE, !.infinite = FALSE],
                            !.pondering_mode = FALSE,
                            !.ponder_move = NO_MOVE,
                            !.apply_ponder_move = FALSE]
    /\ w' = [w EXCEPT !.pondering = FALSE, !.running = TRUE]
    /\ dctx' = "ss"
    /\ dpc' = "ss_begin"
    /\ UNCHANGED <<tvars, xvars, dcmd, config, engine, thr>>

Driver ==
    \/ \E c \in StopLines : read_command(c)
    \/ handle_stop_begin
    \/ start_search_begin
    \/ store_suppress
    \/ request_stop
    \/ join
    \/ handle_setoption
    \/ handle_ucinewgame
    \/ handle_position
    \/ \E line \in GoLines : go(line)
    \/ go_guess
    \/ start_search_spawn
    \/ handle_ponderhit
    \/ ponderhit_sync

(***************************************************************************)
(* The worker thread: the lambda of start_search_async, which runs         *)
(* Engine::search_position / search_position_impl and then prints.         *)
(***************************************************************************)
\* the clock is left open: a deadline test of a timed search may come out either way
Clock(i) == IF TimeEnabled(thr[i].limits, Stm(i)) THEN BOOLEAN ELSE {FALSE}

\* search_position_impl has left its loop and search_position returns
Returned(t, cause) ==
    [t EXCEPT !.pc = "ret", !.endCause = cause,
              !.stopBy = IF cause = "stop" THEN dcmd.name ELSE "none"]

\* search_position_impl: the tests at the head of the iteration loop
loop_head(i) ==
    /\ thr[i].pc = "loop"
    /\ \E hard_passed \in Clock(i), soft_expired \in Clock(i) :
         LET t == thr[i]
             cause ==
               IF ~KeepSearching(t.limits, Stm(i)) /\ t.cur_depth > MaxDepthOf(t.limits, Stm(i))
               THEN "depth"
               ELSE IF hard_passed THEN "hard"
               ELSE IF t.has_best /\ soft_expired /\ t.cur_depth > 2 THEN "soft"
               ELSE IF w.stop THEN "stop"
               ELSE "none"
         IN thr' = [thr EXCEPT ![i] =
                      IF cause = "none" THEN [t EXCEPT !.pc = "iter"] ELSE Returned(t, cause)]
    /\ UNCHANGED <<tvars, xvars, dpc, dctx, dcmd, dloc, config, engine, board, w>>

\* an accepted iteration that stays at the maximum depth and searches it again
Completed_stays_at_max(t, m, soft_expired, keep, maxd) ==
    LET t1 == [t EXCEPT !.has_best = TRUE, !.best_move = m, !.infos = @ + 1]
    IN IF soft_expired THEN [t1 EXCEPT !.pc = "ret", !.endCause = "soft"]
       ELSE IF t.cur_depth < maxd THEN [t1 EXCEPT !.pc = "loop", !.cur_depth = @ + 1]
       ELSE IF ~keep THEN [t1 EXCEPT !.pc = "ret", !.endCause = "depth"]
       ELSE [t1 EXCEPT !.pc = "loop"]

\* search_position_impl after an accepted iteration: the callback has run
\* (print_iteration_info), then the soft deadline, the idle loop or the next depth
Completed(t, m, soft_expired, keep, maxd) ==
    LET t1 == [t EXCEPT !.has_best = TRUE, !.best_move = m, !.infos = @ + 1]
    IN IF soft_expired THEN [t1 EXCEPT !.pc = "ret", !.endCause = "soft"]
       ELSE IF keep /\ t.cur_depth >= maxd THEN [t1 EXCEPT !.pc = "idle"]
       ELSE IF t.cur_depth < maxd THEN [t1 EXCEPT !.pc = "loop", !.cur_depth = @ + 1]
       ELSE [t1 EXCEPT !.pc = "ret", !.endCause = "depth"]

\* one iteration depth: the aspiration attempts of find_best_move and their outcome
iteration(i) ==
    /\ thr[i].pc = "iter"
    /\ LET t == thr[i]
           ml == legalmoves(t.search_board)
       IN \/ /\ w.stop
             /\ thr' = [thr EXCEPT ![i] = Returned(t, "stop")]
          \/ /\ TRUE \in Clock(i)
             /\ thr' = [thr EXCEPT ![i] = Returned(t, "hard")]
          \/ /\ ml = <<>>
             /\ thr' = [thr EXCEPT ![i] = Returned(t, "nomoves")]
          \/ /\ ml # <<>>
             /\ \E m \in RootSearchMoves(t.search_board), soft_expired \in Clock(i) :
                  thr' = [thr EXCEPT ![i] =
                            Completed(t, m, soft_expired,
                                      KeepSearching(t.limits, Stm(i)),
                                      MaxDepthOf(t.limits, Stm(i)))]
    /\ UNCHANGED <<tvars, xvars, dpc, dctx, dcmd, dloc, config, engine, board, w>>

\* search_position_impl: the idle loop at maximum depth of an infinite / ponder search
idle_until_stop(i) ==
    /\ thr[i].pc = "idle"
    /\ w.stop
    /\ thr' = [thr EXCEPT ![i] = Returned(@, "stop")]
    /\ UNCHANGED <<tvars, xvars, dpc, dctx, dcmd, dloc, config, engine, board, w>>

\* the lambda, pondering_mode: reason = w.stop_reason.load()
load_reason(i) ==
    /\ thr[i].pc = "ret"
    /\ thr[i].pondering_mode
    /\ thr' = [thr EXCEPT ![i] = [@ EXCEPT !.pc = "ret2", !.reason = w.stop_reason]]
    /\ UNCHANGED <<tvars, xvars, dpc, dctx, dcmd, dloc, config, engine, board, w>>

\* the lambda, pondering_mode: suppress = w.suppress_bestmove.load() and the test
ponder_reply_wanted(i) ==
    /\ thr[i].pc = "ret2"
    /\ thr' = [thr EXCEPT ![i].pc = IF thr[i].reason = "StopCmd" /\ ~w.suppress_bestmove
                                     THEN "emit" ELSE "done"]
    /\ UNCHANGED <<tvars, xvars, dpc, dctx, dcmd, dloc, config, engine, board, w>>

\* the lambda, not pondering_mode: if (w.suppress_bestmove.load()) return
check_suppress(i) ==
    /\ thr[i].pc = "ret"
    /\ ~thr[i].pondering_mode
    /\ thr' = [thr EXCEPT ![i] = [@ EXCEPT !.pc = IF w.suppress_bestmove THEN "done" ELSE "emit"]]
    /\ UNCHANGED <<tvars, xvars, dpc, dctx, dcmd, dloc, config, engine, board, w>>

pick_fallback_legal_move(p) ==
    IF legalmoves(p) = <<>> THEN NO_MOVE ELSE legalmoves(p)[1]

\* the candidate handed on without the legality test
ensure_legal_unchecked(p, candidate) ==
    IF legalmoves(p) = <<>> THEN NO_MOVE ELSE candidate

ensure_legal_or_fallback(p, candidate) ==
    IF legalmoves(p) = <<>> THEN NO_MOVE
    ELSE IF candidate \in Range(legalmoves(p)) THEN candidate
    ELSE legalmoves(p)[1]

\* the lambda: chess::Move best = (ok && result.has_best_move) ? ... : ...
BestOf(t) ==
    IF t.has_best THEN ensure_legal_or_fallback(t.search_board, t.best_move)
    ELSE pick_fallback_legal_move(t.search_board)

\* a bestmove line that does not end the lambda: it is printed a second time
SendBestmoveTwice(t, m) ==
    [t EXCEPT !.pc = IF t.bm = 0 THEN "print" ELSE "done", !.best = m,
              !.bm = @ + 1, !.bmMove = m]

\* io.send of a bestmove line naming move m (NO_MOVE is printed as 0000)
SendBestmove(t, m) == [t EXCEPT !.pc = "done", !.bm = @ + 1, !.bmMove = m]

\* the lambda: the choice of the move; "bestmove 0000", and the ponder reply, end it here
choose_best(i) ==
    /\ thr[i].pc = "emit"
    /\ LET t == thr[i]
           best == BestOf(t)
       IN thr' = [thr EXCEPT ![i] =
                    IF best = NO_MOVE \/ t.pondering_mode
                    THEN SendBestmove(t, best)
                    ELSE [t EXCEPT !.pc = "pmove", !.best = best]]
    /\ UNCHANGED <<tvars, xvars, dpc, dctx, dcmd, dloc, config, engine, board, w>>

\* compute_ponder_move_depth1: a depth-1 search after the best move
compute_ponder_move_depth1(root, best) ==
    LET tmp == makeMove(root, best)
    IN IF legalmoves(tmp) = <<>> THEN {NO_MOVE} ELSE RootSearchMoves(tmp)

\* the lambda: the ponder move and its store into the SearchWorker
store_ponder_move(i) ==
    /\ thr[i].pc = "pmove"
    /\ \E ponder \in (IF thr[i].cfg_ponder
                      THEN compute_ponder_move_depth1(thr[i].search_board, thr[i].best)
                      ELSE {NO_MOVE}) :
          w' = [w EXCEPT !.last_ponder_move = ponder,
                         !.have_last_ponder_move = (ponder # NO_MOVE)]
    /\ thr' = [thr EXCEPT ![i] = [@ EXCEPT !.pc = "print"]]
    /\ UNCHANGED <<tvars, xvars, dpc, dctx, dcmd, dloc, config, engine, board>>

\* print_search_output: the bestmove line of a normal search
print_search_output(i) ==
    /\ thr[i].pc = "print"
    /\ thr' = [thr EXCEPT ![i] = SendBestmove(@, @.best)]
    /\ UNCHANGED <<tvars, xvars, dpc, dctx, dcmd, dloc, config, engine, board, w>>

Worker(i) ==
    \/ loop_head(i)
    \/ iteration(i)
    \/ idle_until_stop(i)
    \/ load_reason(i)
    \/ ponder_reply_wanted(i)
    \/ check_suppress(i)
    \/ choose_best(i)
    \/ store_ponder_move(i)
    \/ print_search_output(i)

UciNext == Driver \/ \E i \in ThreadIds : Worker(i)

(***************************************************************************)
(* The transposition table (src/transposition.cpp).                        *)
(*                                                                         *)
(* A 64-bit key is held as its parts: hi, the top 16 bits (the signature); *)
(* lo, the low bits that the bucket mask can select; mid, the rest.        *)
(***************************************************************************)
\* Score domain (types.hpp 10-23)
SCORE_INF == 1000000000
MATE_SCORE == 1000000
MATE_BOUND == MATE_SCORE - 1000
ASP_TRIES == 5
ASP_WINDOW == 50

Abs(x) == IF x < 0 THEN 0 - x ELSE x

CLUSTER_SIZE == 4
TT_EXACT == 0
TT_LOWERBOUND == 1
TT_UPPERBOUND == 2
GEN_WRAP == 256
DEPTH_MAX == 127

\* gen_ values below which clear() is explored, besides the one before the wrap
GenCap == 2

RECURSIVE BitAnd(_, _)
BitAnd(a, b) ==
    IF a = 0 \/ b = 0 THEN 0
    ELSE (a % 2) * (b % 2) + 2 * BitAnd(a \div 2, b \div 2)

RECURSIVE BitOr(_, _)
BitOr(a, b) ==
    IF a = 0 THEN b
    ELSE IF b = 0 THEN a
    ELSE (IF a % 2 = 1 \/ b % 2 = 1 THEN 1 ELSE 0) + 2 * BitOr(a \div 2, b \div 2)

RECURSIVE ShiftRight(_, _)
ShiftRight(x, n) == IF n = 0 \/ x = 0 THEN x ELSE ShiftRight(x \div 2, n - 1)

\* x |= x >> n
Smear(x, n) == BitOr(x, ShiftRight(x, n))

next_pow2(x) ==
    IF x <= 1 THEN 1
    ELSE Smear(Smear(Smear(Smear(Smear(Smear(x - 1, 1), 2), 4), 8), 16), 32) + 1

\* a clamp that lets every value through
Clamp_none(x, lo, hi) == x

Clamp(x, lo, hi) == IF x < lo THEN lo ELSE IF x > hi THEN hi ELSE x

\* PackedEntry{} and Bucket{}
PackedEntry ==
    [value_cp |-> 0, key16 |-> 0, move16 |-> 0, depth |-> -1, flag |-> 0,
     gen |-> 0, hasMove |-> 0]

Bucket == [s \in 1..CLUSTER_SIZE |-> PackedEntry]

\* TTEntry
TTEntry(key, depth, flag, value, bestMove, hasMove) ==
    [key |-> key, depth |-> depth, flag |-> flag, value |-> value,
     bestMove |-> bestMove, hasMove |-> hasMove]

NoKey == [hi |-> 0, mid |-> 0, lo |-> 0]
\* std::nullopt
None == [hit |-> FALSE, key |-> NoKey, depth |-> 0, flag |-> TT_EXACT, value |-> 0,
         bestMove |-> NO_MOVE, hasMove |-> FALSE]

key_signature16(key) == key.hi

\* a bucket index taken from the signature bits
BucketIndex_of_signature(t, key) == BitAnd(key.hi, t.mask_)

\* static_cast<std::size_t>(key) & mask_
BucketIndex(t, key) == BitAnd(key.lo, t.mask_)

\* TranspositionTable::resize: the number of buckets
BucketCount(maxEntries) ==
    LET me == IF maxEntries < CLUSTER_SIZE THEN CLUSTER_SIZE ELSE maxEntries
        b0 == me \div CLUSTER_SIZE
    IN next_pow2(IF b0 < 1 THEN 1 ELSE b0)

\* TranspositionTable::resize
resize(maxEntries) ==
    LET buckets == BucketCount(maxEntries)
    IN [table_ |-> [b \in 0..(buckets - 1) |-> Bucket],
        mask_ |-> buckets - 1,
        capacity_entries_ |-> buckets * CLUSTER_SIZE,
        gen_ |-> 1]

\* clear whose wrap to generation 1 leaves the slots as they are
clear_keeps_slots(t) == [t EXCEPT !.gen_ = IF (t.gen_ + 1) % GEN_WRAP = 0 THEN 1
                                          ELSE (t.gen_ + 1) % GEN_WRAP]

\* TranspositionTable::clear
clear(t) ==
    LET g == (t.gen_ + 1) % GEN_WRAP
    IN IF g = 0
       THEN [t EXCEPT !.gen_ = 1,
                      !.table_ = [b \in DOMAIN t.table_ |-> Bucket]]
       ELSE [t EXCEPT !.gen_ = g]

\* the slots of a bucket that probe and store step 1 accept for a signature
Matches(t, pe, sig) == pe.gen = t.gen_ /\ pe.depth >= 0 /\ pe.key16 = sig

\* the first slot of the bucket among the slots S, 0 when S is empty
FirstSlot(S) ==
    IF S = {} THEN 0 ELSE CHOOSE s \in S : \A r \in S : s <= r

\* TranspositionTable::probe
probe(t, key) ==
    LET b == t.table_[BucketIndex(t, key)]
        hits == {r \in 1..CLUSTER_SIZE : Matches(t, b[r], key_signature16(key))}
        s == FirstSlot(hits)
    IN IF s = 0 THEN None
       ELSE [hit |-> TRUE, key |-> key, depth |-> b[s].depth, flag |-> b[s].flag,
             value |-> b[s].value_cp,
             bestMove |-> IF b[s].hasMove # 0 THEN b[s].move16 ELSE NO_MOVE,
             hasMove |-> (b[s].hasMove # 0)]

\* the mate adjustment of a score by the ply of its node: a mate score moves
\* away from zero by ply, any other score is kept
MateToPly0(value, ply) ==
    IF value >= MATE_BOUND THEN value + ply
    ELSE IF value <= 0 - MATE_BOUND THEN value - ply
    ELSE value

\* a write lambda that adjusts the value as for a node one ply below the root
write_adjusting(t, entry) ==
    [value_cp |-> MateToPly0(entry.value, 1),
     key16 |-> key_signature16(entry.key),
     move16 |-> IF entry.hasMove THEN entry.bestMove ELSE NO_MOVE,
     depth |-> Clamp(entry.depth, 0, DEPTH_MAX),
     flag |-> entry.flag,
     gen |-> t.gen_,
     hasMove |-> IF entry.hasMove THEN 1 ELSE 0]

\* store: the write lambda
write(t, entry) ==
    [value_cp |-> entry.value,
     key16 |-> key_signature16(entry.key),
     move16 |-> IF entry.hasMove THEN entry.bestMove ELSE NO_MOVE,
     depth |-> Clamp(entry.depth, 0, DEPTH_MAX),
     flag |-> entry.flag,
     gen |-> t.gen_,
     hasMove |-> IF entry.hasMove THEN 1 ELSE 0]

\* a matching slot overwritten whatever it holds
replace_always(pe, entry) == TRUE

\* store, step 1: the test whether a matching slot is overwritten
replace(pe, entry) ==
    \/ entry.depth > pe.depth
    \/ entry.depth = pe.depth /\ entry.flag = TT_EXACT /\ pe.flag # TT_EXACT

\* a step 1 that never gives up the move a slot holds
Update_keeps_move(t, pe, entry) ==
    IF replace(pe, entry)
    THEN (IF entry.hasMove \/ pe.hasMove = 0 THEN write(t, entry)
          ELSE [write(t, entry) EXCEPT !.hasMove = 1, !.move16 = pe.move16])
    ELSE IF entry.hasMove /\ pe.hasMove = 0
         THEN [pe EXCEPT !.hasMove = 1, !.move16 = entry.bestMove]
         ELSE pe

\* a step 1 that leaves a slot it does not overwrite as it is
Update_no_fill(t, pe, entry) ==
    IF replace(pe, entry) THEN write(t, entry) ELSE pe

\* store, step 1: what becomes of the matching slot
Update(t, pe, entry) ==
    IF replace(pe, entry) THEN write(t, entry)
    ELSE IF entry.hasMove /\ pe.hasMove = 0
         THEN [pe EXCEPT !.hasMove = 1, !.move16 = entry.bestMove]
         ELSE pe

\* a quality that counts the depth only
quality_depth_only(t, pe) ==
    IF pe.depth < 0 THEN -1000000
    ELSE pe.depth * 4 - (IF pe.gen # t.gen_ THEN 1000 ELSE 0)

\* store, step 3: the quality lambda
quality(t, pe) ==
    IF pe.depth < 0 THEN -1000000
    ELSE pe.depth * 4
         + (IF pe.flag = TT_EXACT THEN 2 ELSE 0)
         + (IF pe.hasMove # 0 THEN 1 ELSE 0)
         - (IF pe.gen # t.gen_ THEN 1000 ELSE 0)

\* store, step 3: the victim, the first slot of least quality
Victim(t, b) ==
    CHOOSE s \in 1..CLUSTER_SIZE :
        /\ \A r \in 1..CLUSTER_SIZE : quality(t, b[s]) <= quality(t, b[r])
        /\ \A r \in 1..(s - 1) : quality(t, b[r]) > quality(t, b[s])

\* a store without step 1: a slot of the same signature is never looked for
store_without_step1(t, entry) ==
    LET idx == BucketIndex(t, entry.key)
        b == t.table_[idx]
        free == {s \in 1..CLUSTER_SIZE : b[s].gen # t.gen_ \/ b[s].depth < 0}
        s2 == FirstSlot(free)
    IN IF s2 # 0 THEN [t EXCEPT !.table_[idx][s2] = write(t, entry)]
       ELSE [t EXCEPT !.table_[idx][Victim(t, b)] = write(t, entry)]

\* TranspositionTable::store
store(t, entry) ==
    LET idx == BucketIndex(t, entry.key)
        b == t.table_[idx]
        same == {s \in 1..CLUSTER_SIZE : Matches(t, b[s], key_signature16(entry.key))}
        free == {s \in 1..CLUSTER_SIZE : b[s].gen # t.gen_ \/ b[s].depth < 0}
        s1 == FirstSlot(same)
        s2 == FirstSlot(free)
    IN IF s1 # 0 THEN [t EXCEPT !.table_[idx][s1] = Update(t, b[s1], entry)]
       ELSE IF s2 # 0 THEN [t EXCEPT !.table_[idx][s2] = write(t, entry)]
       ELSE [t EXCEPT !.table_[idx][Victim(t, b)] = write(t, entry)]

(***************************************************************************)
(* The table's clients: the keys and entries fed to it.                    *)
(***************************************************************************)
Key(hi, mid, lo) == [hi |-> hi, mid |-> mid, lo |-> lo]
KeyA == Key(1, 0, 0)
\* another position with the signature and bucket of KeyA
KeyA2 == Key(1, 1, 0)
\* a position that shares the bucket of KeyA only in a one-bucket table
KeyF == Key(5, 0, 1)

StoreInputs ==
    { TTEntry(KeyA, 1, TT_EXACT, 7, 1, TRUE),
      TTEntry(KeyA, 1, TT_LOWERBOUND, -7, NO_MOVE, FALSE),
      TTEntry(KeyA2, 2, TT_UPPERBOUND, MATE_SCORE - 3, NO_MOVE, FALSE),
      TTEntry(Key(2, 0, 0), ABS_MAX_DEPTH, TT_EXACT, 20, NO_MOVE, FALSE),
      TTEntry(Key(3, 0, 0), 1, TT_LOWERBOUND, 30, 3, TRUE),
      TTEntry(Key(4, 0, 0), 3, TT_UPPERBOUND, 5 - MATE_SCORE, NO_MOVE, FALSE),
      TTEntry(KeyF, 2, TT_EXACT, 60, 3, TRUE) }

ProbeKeys == {KeyA, KeyF}

\* resize arguments: a one-bucket and a two-bucket table
ResizeInputs == {0, 2 * CLUSTER_SIZE}

\* which step of store takes the entry: 1 (same signature), 2 (stale or empty
\* slot) or 3 (victim)
StoreStep(t, entry) ==
    LET b == t.table_[BucketIndex(t, entry.key)]
    IN IF \E s \in 1..CLUSTER_SIZE : Matches(t, b[s], key_signature16(entry.key)) THEN 1
       ELSE IF \E s \in 1..CLUSTER_SIZE : b[s].gen # t.gen_ \/ b[s].depth < 0 THEN 2
       ELSE 3

NoOp == [op |-> "none", step |-> 0, entry |-> TTEntry(NoKey, 0, TT_EXACT, 0, NO_MOVE, FALSE),
         key |-> NoKey, out |-> None]

\* a table as resize leaves it, the smallest one, possibly cleared since
\* (an entry stored at generation 1 is still in memory at generation 255)
TTInit ==
    /\ tt \in { [resize(0) EXCEPT !.gen_ = g] : g \in {1, GEN_WRAP - 1} }
          \cup { [store(resize(0), e) EXCEPT !.gen_ = GEN_WRAP - 1] :
                    e \in {TTEntry(KeyA, 1, TT_EXACT, 7, 1, TRUE)} }
    /\ last = NoOp

tt_store(entry) ==
    /\ tt' = store(tt, entry)
    /\ last' = [NoOp EXCEPT !.op = "store", !.entry = entry,
                            !.step = StoreStep(tt, entry)]
    /\ UNCHANGED <<uvars, xvars>>

tt_probe(key) ==
    /\ last' = [NoOp EXCEPT !.op = "probe", !.key = key, !.out = probe(tt, key)]
    /\ tt' = tt
    /\ UNCHANGED <<uvars, xvars>>

tt_clear ==
    /\ tt.gen_ < GenCap \/ tt.gen_ = GEN_WRAP - 1
    /\ tt' = clear(tt)
    /\ last' = [NoOp EXCEPT !.op = "clear"]
    /\ UNCHANGED <<uvars, xvars>>

tt_resize(maxEntries) ==
    /\ tt' = resize(maxEntries)
    /\ last' = [NoOp EXCEPT !.op = "resize"]
    /\ UNCHANGED <<uvars, xvars>>

TTNext ==
    \/ \E entry \in StoreInputs : tt_store(entry)
    \/ \E key \in ProbeKeys : tt_probe(key)
    \/ tt_clear
    \/ \E n \in ResizeInputs : tt_resize(n)

(***************************************************************************)
(* The specifications.                                                     *)
(***************************************************************************)
\* the table at rest, for the specification of the driver and the worker
TTIdle == tt = resize(0) /\ last = NoOp

\* no call of search_position_impl or of a pure function in progress
NoSearch == [pc |-> "none"]
NoCalc == [fn |-> "none"]
NoCli == [pc |-> "none"]
XIdle == sp = NoSearch /\ calc = NoCalc /\ cli = NoCli

Init == UciInit /\ TTIdle /\ XIdle
Next == UciNext
Spec == Init /\ [][Next]_vars

InitTT == UciInit /\ TTInit /\ XIdle
SpecTT == InitTT /\ [][TTNext]_vars


\* the steps the driver thread takes by itself once a line has been read
DriverStep ==
    \/ handle_stop_begin
    \/ start_search_begin
    \/ store_suppress
    \/ request_stop
    \/ join
    \/ handle_setoption
    \/ handle_ucinewgame
    \/ handle_position
    \/ go_guess
    \/ start_search_spawn
    \/ ponderhit_sync

\* the lines fed to the driver where progress is checked: the stopping lines and
\* one go line of each kind of search
FairStopLines ==
    {[NoCmd EXCEPT !.name = "stop"],
     [NoCmd EXCEPT !.name = "ucinewgame"],
     [NoCmd EXCEPT !.name = "position", !.pos = 1],
     [NoCmd EXCEPT !.name = "setoption", !.opt = "Ponder", !.val = TRUE]}

FairGoLines ==
    { [SearchLimits EXCEPT !.depth = 1],
      [SearchLimits EXCEPT !.movetime_ms = 50],
      [SearchLimits EXCEPT !.infinite = TRUE],
      [SearchLimits EXCEPT !.ponder = TRUE] }

FairNext ==
    \/ \E c \in FairStopLines : read_command(c)
    \/ \E line \in FairGoLines : go(line)
    \/ handle_ponderhit
    \/ DriverStep
    \/ \E i \in ThreadIds : Worker(i)

\* both kinds of thread are scheduled: neither the driver inside a handler nor a
\* worker waits for ever while it can take a step; no line need ever arrive
FairSpec ==
    /\ Init
    /\ [][FairNext]_vars
    /\ WF_vars(DriverStep)
    /\ \A i \in ThreadIds : WF_vars(Worker(i))

(***************************************************************************)
(* Properties of the driver and the worker.                                *)
(***************************************************************************)
EmittedBy(i) == thr[i].bm

\* C1: at most one search worker thread is live at any time, and a new worker
\* thread is created (by go or by ponderhit) only once the previous worker has
\* been stopped and joined.
C1_OneWorkerInFlight ==
    /\ Cardinality(LiveThreads) <= 1
    /\ dpc = "ss_spawn" => LiveThreads = {} /\ ~joinable

\* C1: a worker is running that a go started after it had stopped and joined
\* the worker before it.
C1_Witness ==
    \E i \in ThreadIds :
        Running(i) /\ thr[i].afterJoin /\ ~thr[i].viaPonderhit /\ w.th = i

\* C2: when the driver applies setoption, position or ucinewgame (config, board,
\* TT resize / clear, heuristic tables), no worker is running or unjoined.
C2_ApplyOnlyWhenJoined ==
    dpc = "apply" => /\ ~joinable
                     /\ \A i \in ThreadIds : ~Running(i) /\ ~Live(i)

\* C2: the driver is about to apply position after having joined a worker.
C2_Witness ==
    dpc = "apply" /\ dcmd.name = "position" /\ dloc.joinedPrev

\* the driver is at a place where it works on the engine's transposition table:
\* its own depth-1 search, Engine::resizeTT_MB, Engine::clearTT
DriverOnTT ==
    \/ dpc = "go_guess"
    \/ /\ dpc = "apply"
       /\ engine.exists
       /\ dcmd.name = "ucinewgame" \/ (dcmd.name = "setoption" /\ dcmd.opt = "Hash")

\* C3: the driver thread never runs a search on, resizes, clears, reads or
\* writes the engine's TT while a worker thread is live.
C3_DriverOffTT == DriverOnTT => LiveThreads = {}

\* C4: a search for which stop was received before it had produced a bestmove
\* has emitted exactly one bestmove by the time its thread has ended, in ponder
\* mode too.
C4_StopGivesBestmove ==
    \A i \in ThreadIds : thr[i].pc = "done" /\ thr[i].stopReq => EmittedBy(i) = 1

\* a non-ponder search that must come to its end: it has a depth or time limit
\* of its own, or stop has been received for it
MustEnd(i) ==
    /\ Running(i)
    /\ ~thr[i].pondering_mode
    /\ SearchKind(thr[i].limits, Stm(i)) # "infinite" \/ thr[i].stopReq

C5_AtEnd ==
    \A i \in ThreadIds :
        /\ EmittedBy(i) <= 1
        /\ thr[i].pc = "done" /\ ~thr[i].pondering_mode /\ ~thr[i].internalReq
              => EmittedBy(i) = 1

\* C5: a non-ponder search that no internal stop (setoption, position, ucinewgame,
\* go, quit) interrupts, and that ends by its depth limit, a deadline or stop,
\* eventually emits a bestmove, and exactly one.
C5_BestmoveOfGo ==
    /\ []C5_AtEnd
    /\ \A i \in ThreadIds :
          MustEnd(i) ~> (EmittedBy(i) = 1 \/ thr[i].internalReq)

\* C5: a non-ponder search that ended on a deadline has emitted its bestmove and
\* no internal stop was issued for it.
C5_Witness ==
    \E i \in ThreadIds :
        /\ thr[i].pc = "done" /\ ~thr[i].pondering_mode /\ ~thr[i].internalReq
        /\ thr[i].endCause \in {"hard", "soft"}
        /\ EmittedBy(i) = 1

\* C6: each worker emits at most one bestmove, and prints no info or bestmove
\* line after its bestmove nor after it has been joined.
C6_BestmoveTerminates ==
    [][\A i \in ThreadIds :
          /\ thr'[i].bm <= 1
          /\ (thr'[i].infos > thr[i].infos \/ thr'[i].bm > thr[i].bm)
                => thr[i].bm = 0 /\ ~thr[i].joined /\ Running(i)]_vars

\* C6: a worker that printed info lines and then its bestmove has ended.
C6_Witness ==
    \E i \in ThreadIds : thr[i].pc = "done" /\ thr[i].bm = 1 /\ thr[i].infos >= 2

ReplacementLimits(i) ==
    /\ ~thr[i].pondering_mode
    /\ thr[i].limits = [thr[i].origLimits EXCEPT !.ponder = FALSE, !.infinite = FALSE]
    /\ thr[i].afterJoin

\* C8 as amended: the worker that ponderhit starts is a non-ponder worker, started
\* after the ponder worker was stopped and joined, whose limits are those of the
\* go ponder with ponder and infinite cleared; it emits at most one bestmove, and
\* exactly one unless an internal stop was issued for it.
C8_PonderhitReplacement ==
    \A i \in ThreadIds :
        thr[i].viaPonderhit =>
            /\ ReplacementLimits(i)
            /\ EmittedBy(i) <= 1
            /\ thr[i].pc = "done" /\ ~thr[i].internalReq => EmittedBy(i) = 1

\* C8 as stated: the worker that ponderhit starts has the cleared limits and has
\* emitted exactly one bestmove when it has ended.
C8_AsStated ==
    \A i \in ThreadIds :
        thr[i].viaPonderhit =>
            /\ ReplacementLimits(i)
            /\ thr[i].pc = "done" => EmittedBy(i) = 1

\* C8: the replacement of a go ponder infinite has ended with its bestmove.
C8_Witness ==
    \E i \in ThreadIds :
        /\ thr[i].viaPonderhit /\ thr[i].pc = "done" /\ EmittedBy(i) = 1
        /\ thr[i].origLimits.infinite /\ thr[i].origLimits.ponder

\* C9: a bestmove names a move legal in the searched position, or 0000 exactly
\* when that position has no legal move; without a completed iteration, or with
\* a result move that is not legal there, it names the first legal move.
C9_BestmoveLegal ==
    \A i \in ThreadIds :
        EmittedBy(i) >= 1 =>
            LET ml == legalmoves(thr[i].search_board)
                m == thr[i].bmMove
            IN /\ (m = NO_MOVE) <=> (ml = <<>>)
               /\ m # NO_MOVE => m \in Range(ml)
               /\ ml # <<>> /\ (~thr[i].has_best \/ thr[i].best_move \notin Range(ml))
                     => m = ml[1]
               /\ ml # <<>> /\ thr[i].has_best /\ thr[i].best_move \in Range(ml)
                     => m = thr[i].best_move

\* C9: a bestmove was emitted for a search whose result move is not legal in
\* the searched position.
C9_Witness ==
    \E i \in ThreadIds :
        /\ EmittedBy(i) = 1 /\ thr[i].has_best
        /\ legalmoves(thr[i].search_board) # <<>>
        /\ thr[i].best_move \notin Range(legalmoves(thr[i].search_board))

(***************************************************************************)
(* Properties of the transposition table.                                  *)
(***************************************************************************)
\* what probe(k) returns right after store(entry), compared with entry
ProbeGivesStored(t, entry) ==
    LET out == probe(t, entry.key)
    IN /\ out.hit
       /\ out.flag = entry.flag
       /\ out.depth = entry.depth
       /\ out.value = entry.value

\* C10 as stated: store(k, depth, bound, value, move) immediately followed by
\* probe(k) returns a hit whose bound, depth and value are the ones stored.
C10_AsStated ==
    [][last'.op = "store" => ProbeGivesStored(tt', last'.entry)]_vars

\* C10 as amended: store immediately followed by probe(k) returns a hit.  When
\* the bucket held no current-generation entry of k's signature, or held one
\* that is shallower, or as deep and not EXACT while the stored bound is EXACT,
\* the hit has the stored bound and value and the stored depth cut to 0..127;
\* otherwise it has the bound, depth and value of the entry held before.
C10_StoreThenProbe ==
    [][last'.op = "store" =>
          LET entry == last'.entry
              old == probe(tt, entry.key)
              out == probe(tt', entry.key)
              takes == \/ ~old.hit
                       \/ entry.depth > old.depth
                       \/ entry.depth = old.depth /\ entry.flag = TT_EXACT
                                                  /\ old.flag # TT_EXACT
          IN /\ out.hit
             /\ takes => /\ out.flag = entry.flag
                         /\ out.value = entry.value
                         /\ out.depth = Clamp(entry.depth, 0, DEPTH_MAX)
             /\ ~takes => /\ out.flag = old.flag
                          /\ out.value = old.value
                          /\ out.depth = old.depth]_vars

\* C10: a store into a bucket whose four slots were all taken by other
\* signatures has been made, and probe returns what was stored.
C10_Witness ==
    /\ last.op = "store"
    /\ last.step = 3
    /\ ProbeGivesStored(tt, last.entry)


AllKeys == {e.key : e \in StoreInputs}

\* every slot in use was written at a generation the counter has reached
NoFutureEntry(t) ==
    \A b \in DOMAIN t.table_ : \A s \in 1..CLUSTER_SIZE :
        t.table_[b][s].depth >= 0 => t.table_[b][s].gen \in 1..t.gen_

\* C11: after clear(), probe returns no hit for any key (until a later store),
\* also when the 8-bit generation wraps from 255 to 1; no slot in memory carries
\* a generation that the counter has yet to reach again.
C11_NoStaleHit ==
    [][ /\ last'.op = "clear" => \A k \in AllKeys : ~probe(tt', k).hit
        /\ NoFutureEntry(tt') ]_vars

\* C11: clear() has just moved the generation from 1 to 2 while an entry
\* written at generation 1 is still in memory.
C11_Witness ==
    /\ last.op = "clear"
    /\ tt.gen_ = 2
    /\ \E s \in 1..CLUSTER_SIZE : tt.table_[0][s].gen = 1 /\ tt.table_[0][s].depth >= 0


(***************************************************************************)
(* The pure functions, each applied to arguments drawn from bounded sets.  *)
(***************************************************************************)
\* requested table sizes in MB explored upward from 0
MaxMb == 24

\* sizeof(PackedEntry), sizeof(Bucket), 1024ULL * 1024ULL
ENTRY_BYTES == 12
BucketBytes == CLUSTER_SIZE * ENTRY_BYTES
MiB == 1024 * 1024

\* TranspositionTable::entries_for_mb
entries_for_mb(mb) ==
    LET m == IF mb < 1 THEN 1 ELSE mb
        bytes == m * MiB
        b0 == bytes \div BucketBytes
        buckets == next_pow2(IF b0 < 1 THEN 1 ELSE b0)
    IN buckets * CLUSTER_SIZE

\* Engine::resizeTT_MB: the hash_mb it records and the buckets it allocates
resizeTT_MB(mb) ==
    LET m == IF mb < 1 THEN 1 ELSE mb
    IN [hash_mb |-> m, buckets |-> BucketCount(entries_for_mb(m))]

MbInputs == 0..MaxMb \cup {default_hash_mb}

fn_resizeTT_MB(mb) ==
    /\ calc = NoCalc
    /\ calc' = [fn |-> "resizeTT_MB", mb |-> mb, out |-> resizeTT_MB(mb)]
    /\ UNCHANGED <<uvars, tvars, sp, cli>>

RECURSIVE IsPow2(_)
IsPow2(n) == n = 1 \/ (n > 1 /\ n % 2 = 0 /\ IsPow2(n \div 2))

\* C12: the table allocated by resizeTT_MB(mb), mb >= 1, has a power-of-two
\* number of buckets and buckets * sizeof(bucket) <= mb * 2^20.
C12_TableFitsMB ==
    calc.fn = "resizeTT_MB" /\ calc.mb >= 1 =>
        /\ IsPow2(calc.out.buckets)
        /\ calc.out.buckets * BucketBytes <= calc.mb * MiB

\* ---------------------------------------------------------------------
\* compute_time_budget (engine.cpp 13-69)
\* ---------------------------------------------------------------------
INT_MAX == 2147483647

Max(a, b) == IF a >= b THEN a ELSE b

\* C++ integer division truncates toward zero.
TruncDiv(a, b) == IF a >= 0 THEN a \div b ELSE 0 - ((0 - a) \div b)

\* a * 95 in a 32-bit int that wraps (a >= 0), computed in 16-bit halves.
WrapMul95(a) ==
    LET lofull == (a % 65536) * 95
        lo == lofull % 65536
        hi == ((a \div 65536) * 95 + lofull \div 65536) % 65536
    IN IF hi >= 32768 THEN (hi - 65536) * 65536 + lo ELSE hi * 65536 + lo

\* (available * 95) / 100 on int: exact while the product fits; a signed
\* overflow is undefined, the build may wrap or compute the wide value.
Soft95(available) ==
    IF available <= INT_MAX \div 95
    THEN {(available * 95) \div 100}
    ELSE {TruncDiv(WrapMul95(available), 100),
          available - (available \div 20) - (IF available % 20 = 0 THEN 0 ELSE 1)}

TimeBudget == [enabled |-> FALSE, soft_ms |-> 0, hard_ms |-> 0, overhead_ms |-> 0]

\* Lines 20-28 with the overhead ignored.
MovetimeBudget_no_overhead(limits, overhead) ==
    {[enabled |-> TRUE, hard_ms |-> limits.movetime_ms, soft_ms |-> sft,
      overhead_ms |-> overhead] : sft \in Soft95(limits.movetime_ms)}

\* Lines 20-28: movetime overrides everything else.
MovetimeBudget(limits, overhead) ==
    LET available == Max(0, limits.movetime_ms - overhead)
    IN {[enabled |-> TRUE, hard_ms |-> available, soft_ms |-> sft,
         overhead_ms |-> overhead] : sft \in Soft95(available)}

\* Lines 30 and 37 reading the white clock whatever the side to move.
MyClock_white(limits, stm) ==
    [time |-> limits.wtime_ms, inc |-> limits.winc_ms]

\* Lines 30 and 37: the clock and increment of the side to move.
MyClock(limits, stm) ==
    IF stm = "w" THEN [time |-> limits.wtime_ms, inc |-> limits.winc_ms]
    ELSE [time |-> limits.btime_ms, inc |-> limits.binc_ms]

\* Lines 30-68.
ClockBudget(limits, stm, overhead) ==
    LET my_time_raw == MyClock(limits, stm).time
        my_time == Max(0, my_time_raw)
        my_inc == Max(0, MyClock(limits, stm).inc)
        available == Max(0, my_time - overhead)
        mtg == IF limits.movestogo > 0 THEN limits.movestogo ELSE 64
        soft0 == available \div (mtg + 1) + (my_inc * 6) \div 10
        hard0 == Min(Min(Min(soft0 * 2, available), my_time \div 4), soft0 * 4)
        hard == IF hard0 < 0 THEN 0 ELSE hard0
        soft1 == IF soft0 < 0 THEN 0 ELSE soft0
        soft == IF soft1 > hard THEN hard ELSE soft1
    IN IF my_time_raw < 0
       THEN {[TimeBudget EXCEPT !.overhead_ms = overhead]}
       ELSE {[enabled |-> TRUE, soft_ms |-> soft, hard_ms |-> hard,
              overhead_ms |-> overhead]}

compute_time_budget(limits, side_to_move, cfg) ==
    LET overhead == Max(0, cfg.move_overhead_ms)
    IN IF limits.movetime_ms >= 0
       THEN MovetimeBudget(limits, overhead)
       ELSE ClockBudget(limits, side_to_move, overhead)

MovetimeInputs == {0 - 1, 0, 10, 21, 1999, 30000000}
OverheadInputs == {0, 20, 50}
LimitsInputs ==
    {[SearchLimits EXCEPT !.movetime_ms = mt, !.wtime_ms = wt, !.btime_ms = bt,
                          !.winc_ms = wi, !.binc_ms = bi, !.movestogo = mtg] :
        mt \in MovetimeInputs, wt \in {0 - 1, 30, 1000, 60000}, bt \in {0 - 1, 500},
        wi \in {0, 7, 1000}, bi \in {0, 15}, mtg \in {0 - 1, 1, 40}}

fn_compute_time_budget(limits, stm, ov) ==
    /\ calc = NoCalc
    /\ \E tb \in compute_time_budget(limits, stm, [move_overhead_ms |-> ov]) :
         calc' = [fn |-> "compute_time_budget", limits |-> limits, stm |-> stm,
                  move_overhead_ms |-> ov, out |-> tb]
    /\ UNCHANGED <<uvars, tvars, sp, cli>>

OnMovetime == calc.fn = "compute_time_budget" /\ calc.limits.movetime_ms > 0

OnClock == /\ calc.fn = "compute_time_budget"
           /\ calc.limits.movetime_ms < 0
           /\ (IF calc.stm = "w" THEN calc.limits.wtime_ms ELSE calc.limits.btime_ms) >= 0

\* C16: for a clock-based go (no movetime, the clock of the side to move
\* known) the budget is computed from that side's time and increment:
\* available = max(0, my_time - overhead), mtg = movestogo if > 0 else 64,
\* soft = available / (mtg + 1) + 0.6 * my_inc (integer parts),
\* hard = min(2 soft, available, my_time / 4, 4 soft), soft <= hard.
C16_ClockBudget ==
    OnClock =>
        LET my_time == IF calc.stm = "w" THEN calc.limits.wtime_ms ELSE calc.limits.btime_ms
            my_inc == IF calc.stm = "w" THEN calc.limits.winc_ms ELSE calc.limits.binc_ms
            available == Max(0, my_time - calc.move_overhead_ms)
            mtg == IF calc.limits.movestogo > 0 THEN calc.limits.movestogo ELSE 64
            soft == available \div (mtg + 1) + (6 * my_inc) \div 10
            hard == Min(Min(2 * soft, available), Min(my_time \div 4, 4 * soft))
        IN /\ calc.out.enabled
           /\ calc.out.hard_ms = hard
           /\ calc.out.soft_ms = Min(soft, hard)

\* C16 witness: black to move with 500 ms and a 15 ms increment while
\* white has 60000 ms; the budget comes from black's clock and the soft
\* time was cut down to the hard time.
C16_Witness ==
    /\ OnClock /\ calc.stm = "b"
    /\ calc.limits.btime_ms = 500 /\ calc.limits.binc_ms = 15
    /\ calc.limits.wtime_ms = 60000 /\ calc.limits.winc_ms = 1000
    /\ calc.limits.movestogo = 1 /\ calc.move_overhead_ms = 20
    /\ calc.out.hard_ms = 125 /\ calc.out.soft_ms = 125

\* ---------------------------------------------------------------------
\* update_soft_deadline (engine.cpp 301-335).  The doubles are kept as
\* exact fractions: factors in ten-thousandths, times in twentieths of a
\* millisecond (0.60 ms = 12, 1.15 ms = 23, 1 ms = 20), the product
\* rounded down to a twentieth, which neither the comparisons with the
\* clamp bounds nor the final int() can tell from the exact value.
\* ---------------------------------------------------------------------

\* floor(20 * base * n1 * n2 / (d1 * d2)) without leaving 32 bits
\* (base <= 2000, n1 <= 31397, n2 <= 30000).
ScaledTarget(base, n1, n2, d1, d2) ==
    LET q1 == base * 20 * n1
        a == q1 \div d1
        b == q1 % d1
        e == (b * n2) \div d1
    IN (a * n2 + e) \div d2

\* Line 331 left out.
TargetClamp_off(target, min_ms, max_ms) == target

\* Line 331: std::clamp(target_ms, min_ms, max_ms)
TargetClamp(target, min_ms, max_ms) == Clamp(target, min_ms, max_ms)

\* in: base_soft_ms, base_hard_ms, completed_depth, best_move_changes,
\* root_branching_factor, iter_best_move and the lambda's captured
\* prev_best_move_all, last_pv0_change_depth, previous_time_reduction.
update_soft_deadline(in) ==
    IF in.base_soft_ms <= 0 \/ in.base_hard_ms <= 0
    THEN [updated |-> FALSE, target_ms |-> 0, soft_ms |-> in.base_soft_ms,
          previous_time_reduction |-> in.previous_time_reduction,
          last_pv0_change_depth |-> in.last_pv0_change_depth,
          prev_best_move_all |-> in.prev_best_move_all]
    ELSE
    LET pv0 == IF in.prev_best_move_all # NO_MOVE /\ in.iter_best_move # in.prev_best_move_all
               THEN in.completed_depth ELSE in.last_pv0_change_depth
        timeReduction == IF pv0 + 4 < in.completed_depth THEN 16857 ELSE 9000
        bestMoveInstability == Clamp(9929 + 18519 * in.best_move_changes, 5000, 30000)
        \* base * (1.4540 + previous) / (2.1593 * timeReduction) * instability
        target0 == ScaledTarget(in.base_soft_ms, 14540 + in.previous_time_reduction,
                                bestMoveInstability, 21593, timeReduction)
        target1 == IF in.root_branching_factor = 1 THEN Min(target0, 500 * 20) ELSE target0
        min_ms == Max(20, in.base_soft_ms * 12)
        max_ms == Min(in.base_hard_ms * 20, in.base_soft_ms * 23)
        target == TargetClamp(target1, min_ms, max_ms)
    IN [updated |-> TRUE, target_ms |-> target, soft_ms |-> TruncDiv(target, 20),
        previous_time_reduction |-> timeReduction,
        last_pv0_change_depth |-> pv0,
        prev_best_move_all |-> in.iter_best_move]

\* The budgets of: go movetime 0 / 21 / 22 / 31 / 600 / 1020 / 2020 and
\* go wtime 60000 winc 1000, with MoveOverhead 20.
TimedBudgets ==
    UNION {compute_time_budget(l, "w", [move_overhead_ms |-> 20]) :
            l \in {[SearchLimits EXCEPT !.movetime_ms = mt] :
                        mt \in {0, 21, 22, 31, 600, 1020, 2020}}
                  \cup {[SearchLimits EXCEPT !.wtime_ms = 60000, !.winc_ms = 1000]}}

UpdateInputs ==
    {[base_soft_ms |-> tb.soft_ms, base_hard_ms |-> tb.hard_ms,
      completed_depth |-> cd, best_move_changes |-> ch, root_branching_factor |-> rbf,
      iter_best_move |-> im, prev_best_move_all |-> pm,
      last_pv0_change_depth |-> lp, previous_time_reduction |-> ptr] :
        tb \in TimedBudgets, cd \in {1, 6}, ch \in 0..2, rbf \in {1, 2},
        im \in {1, 2}, pm \in {NO_MOVE, 1}, lp \in {0, 1},
        ptr \in {10000, 9000, 16857}}

fn_update_soft_deadline(in) ==
    /\ calc = NoCalc
    /\ calc' = [fn |-> "update_soft_deadline", in |-> in, out |-> update_soft_deadline(in)]
    /\ UNCHANGED <<uvars, tvars, sp, cli>>

Updated == calc.fn = "update_soft_deadline" /\ calc.out.updated

\* C17: after every adaptive update the new soft target lies between
\* 0.60 * base_soft and min(hard, 1.15 * base_soft), and the soft deadline
\* (before and after the update) is not after the hard deadline.
C17_TargetInBand ==
    /\ Updated =>
        /\ calc.out.target_ms >= 12 * calc.in.base_soft_ms
        /\ calc.out.target_ms <= 23 * calc.in.base_soft_ms
        /\ calc.out.target_ms <= 20 * calc.in.base_hard_ms
    /\ calc.fn = "update_soft_deadline" =>
        /\ calc.in.base_soft_ms <= calc.in.base_hard_ms
        /\ calc.out.soft_ms <= calc.in.base_hard_ms

\* C17 witness: after go movetime 1020 an iteration with two changes of
\* the best move asks for more than the hard time and the target is cut
\* to the hard deadline, 1000 ms.
C17_Witness ==
    /\ Updated /\ calc.in.base_soft_ms = 950 /\ calc.in.base_hard_ms = 1000
    /\ calc.in.best_move_changes = 2
    /\ calc.out.target_ms = 20 * 1000 /\ calc.out.soft_ms = 1000

\* C18: with a single legal root move the adapted soft target is at most
\* 500 ms, whatever the base soft and hard budget.
C18_SingleMoveCap ==
    Updated /\ calc.in.root_branching_factor = 1 =>
        calc.out.target_ms <= 500 * 20 /\ calc.out.soft_ms <= 500

\* ---------------------------------------------------------------------
\* Score formatting (fast_engine_uci.cpp 37-65).  The text is the word
\* list "score", "mate" or "cp", followed by the characters of the number.
\* ---------------------------------------------------------------------
MaxMatePly == 12

DigitChar == <<"0", "1", "2", "3", "4", "5", "6", "7", "8", "9">>

RECURSIVE Digits(_)
Digits(n) == IF n < 10 THEN <<DigitChar[n + 1]>>
             ELSE Digits(n \div 10) \o <<DigitChar[(n % 10) + 1]>>

\* ostream << int
FormatInt(n) == IF n < 0 THEN <<"-">> \o Digits(0 - n) ELSE Digits(n)

DigitVal(c) == CHOOSE d \in 0..9 : DigitChar[d + 1] = c

RECURSIVE ParseDigits(_)
ParseDigits(cs) == IF Len(cs) = 0 THEN 0
                   ELSE 10 * ParseDigits(SubSeq(cs, 1, Len(cs) - 1)) + DigitVal(cs[Len(cs)])

\* What a reader of the info line makes of the number.
ParseInt(cs) == IF Len(cs) > 0 /\ cs[1] = "-"
                THEN 0 - ParseDigits(SubSeq(cs, 2, Len(cs)))
                ELSE ParseDigits(cs)

\* "score mate k" / "score cp n" read back.
ParseScore(text) == [kind |-> text[2], value |-> ParseInt(SubSeq(text, 3, Len(text)))]

\* Lines 42 and 48 with the half move rounded down.
MateMoves_floor(dPlies) == dPlies \div 2

\* Lines 42 and 48: (dPlies + 1) / 2
MateMoves(dPlies) == TruncDiv(dPlies + 1, 2)

\* Line 48 without the minus sign.
MatedMoves_unsigned(dPlies) == MateMoves(dPlies)

\* Line 48: -static_cast<int>((dPlies + 1) / 2)
MatedMoves(dPlies) == 0 - MateMoves(dPlies)

score_to_mate_moves(score) ==
    IF score > MATE_BOUND
    THEN [ret |-> TRUE, mate_moves_out |-> MateMoves(MATE_SCORE - score)]
    ELSE IF score < 0 - MATE_BOUND
    THEN [ret |-> TRUE, mate_moves_out |-> MatedMoves(MATE_SCORE + score)]
    ELSE [ret |-> FALSE, mate_moves_out |-> 0]

append_uci_score(score) ==
    LET m == score_to_mate_moves(score)
    IN IF m.ret THEN <<"score", "mate">> \o FormatInt(m.mate_moves_out)
       ELSE <<"score", "cp">> \o FormatInt(score)

\* Scores of an iteration: mate in n plies for either side, n up to
\* MaxMatePly and the longest mate 999, centipawn scores, and the bound itself.
MateDistances == 1..MaxMatePly \cup {999}
ScoreInputs ==
    {MATE_SCORE - n : n \in MateDistances}
    \cup {0 - (MATE_SCORE - n) : n \in MateDistances}
    \cup {0, 35, 0 - 35, 120, 0 - 999, 100000, MATE_BOUND - 1, 0 - (MATE_BOUND - 1),
          MATE_BOUND, 0 - MATE_BOUND}

fn_append_uci_score(score) ==
    /\ calc = NoCalc
    /\ calc' = [fn |-> "append_uci_score", score |-> score, out |-> append_uci_score(score)]
    /\ UNCHANGED <<uvars, tvars, sp, cli>>

Sign(x) == IF x > 0 THEN 1 ELSE IF x < 0 THEN 0 - 1 ELSE 0
CeilHalf(x) == IF x % 2 = 0 THEN x \div 2 ELSE x \div 2 + 1
Printed == calc.fn = "append_uci_score"

FnNext ==
    \/ \E mb \in MbInputs : fn_resizeTT_MB(mb)
    \/ \E limits \in LimitsInputs, stm \in {"w", "b"}, ov \in OverheadInputs :
            fn_compute_time_budget(limits, stm, ov)
    \/ \E in \in UpdateInputs : fn_update_soft_deadline(in)
    \/ \E score \in ScoreInputs : fn_append_uci_score(score)

InitFn == UciInit /\ TTIdle /\ XIdle
SpecFn == InitFn /\ [][FnNext]_vars


\* ---------------------------------------------------------------------
\* Iterative deepening: Engine::search_position_impl (engine.cpp 260-656)
\* at the grain of one find_best_move call per step.  sp is the frame of
\* the call; the fields src, completed, ncalls, calls and fails are
\* history fields that no statement of the code reads.
\* ---------------------------------------------------------------------

\* the deepest max_depth of a call
MaxIterDepth == 3

IDMoves == 1..2
IDScores == {0 - 1000, 0, 1000, MATE_SCORE - 3}

\* What one call of find_best_move can hand back.  Without a stop the
\* call returns whether the root has a legal move and, if so, writes its
\* best move and score; a stopped call (possible only once the stop flag
\* or the hard deadline is up) may return anything and may have written
\* the outputs.
FindBestMove(canStop, hasMoves) ==
    {[ret |-> hasMoves, stopped |-> FALSE, has_best_move |-> hasMoves,
      wrote |-> hasMoves, move |-> m, score |-> v] :
        m \in (IF hasMoves THEN IDMoves ELSE {NO_MOVE}),
        v \in (IF hasMoves THEN IDScores ELSE {0})}
    \cup (IF canStop
          THEN {[ret |-> r, stopped |-> TRUE, has_best_move |-> r,
                 wrote |-> wr, move |-> m, score |-> v] :
                    r \in BOOLEAN, wr \in BOOLEAN, m \in IDMoves, v \in {0, 1000}}
          ELSE {})

NoOut == [move |-> NO_MOVE, score |-> 0, src |-> 0]

IDInit ==
    /\ sp \in {[pc |-> "head", max_depth |-> md, keep |-> k, time_enabled |-> te,
               ext |-> ex, hasMoves |-> hm,
               stop |-> FALSE, hard |-> FALSE,
               cur_depth |-> 1, depth_to_search |-> 0,
               has_best |-> FALSE, best |-> NoOut,
               have_prev |-> FALSE, prev_score |-> 0,
               alpha |-> 0, beta |-> 0, window |-> ASP_WINDOW, tries |-> 0,
               ok |-> FALSE, in_window |-> FALSE,
               iter |-> NoOut, last_has_best_move |-> FALSE,
               ncalls |-> 0, completed |-> 0, why |-> "none",
               calls |-> [d \in 1..MaxIterDepth |-> [asp |-> 0, full |-> 0, fails |-> 0]],
               result |-> [has_best_move |-> FALSE, best_move |-> NO_MOVE,
                           score |-> 0, src |-> 0]] :
                md \in 1..MaxIterDepth, k \in BOOLEAN, te \in BOOLEAN,
                ex \in BOOLEAN, hm \in BOOLEAN}
    \* only an infinite search with a stop flag keeps searching (215-223)
    /\ sp.keep => (sp.ext /\ ~sp.time_enabled)

IDRunning == sp.pc \in {"head", "asp", "full", "post", "idle"}

\* UCI "stop" (or the driver's internal stop) raises the external flag.
id_external_stop ==
    /\ IDRunning /\ sp.ext /\ ~sp.stop
    /\ sp' = [sp EXCEPT !.stop = TRUE]
    /\ UNCHANGED <<uvars, tvars, calc, cli>>

\* The clock passes the hard deadline.
id_hard_deadline ==
    /\ IDRunning /\ sp.time_enabled /\ ~sp.hard
    /\ sp' = [sp EXCEPT !.hard = TRUE]
    /\ UNCHANGED <<uvars, tvars, calc, cli>>

CanStop(s) == s.stop \/ (s.time_enabled /\ s.hard)

\* soft_expired(): false without time control, otherwise whatever the
\* clock says; the soft deadline is never after the hard one.
SoftExpired(s) == IF ~s.time_enabled THEN {FALSE}
                  ELSE IF s.hard THEN {TRUE} ELSE BOOLEAN

\* Lines 414-417: a stopped attempt is not ok.
OkAfter_ignoring_stopped(ret, stopped) == ret

OkAfter(ret, stopped) == IF stopped THEN FALSE ELSE ret

\* Line 474: the full-window re-search is wanted.
NeedFullWindow_whenever_ok(ok, in_window) == ok

NeedFullWindow(ok, in_window) == ok /\ ~in_window

\* Line 363: the soft-deadline break at the head of the loop.
SoftBreakAtHead_any(has_best, soft, cur_depth) == soft

SoftBreakAtHead(has_best, soft, cur_depth) == has_best /\ soft /\ cur_depth > 2

\* Line 581: the soft-deadline break after a completed depth.
SoftBreak(has_best, soft) == has_best /\ soft

\* Line 382: the iteration starts with a window around the previous score.
UseAspiration(have_prev, prev_score) == have_prev /\ Abs(prev_score) < MATE_BOUND

\* Lines 452, 461: the window after a fail-low or fail-high.
Widen_by_step(window) == window + ASP_WINDOW

Widen(window) == window * 2

\* Lines 350-393: the checks at the head of the loop and the window setup.
id_loop_head ==
    /\ sp.pc = "head"
    /\ \E soft \in SoftExpired(sp) :
         IF \/ (~sp.keep /\ sp.cur_depth > sp.max_depth)
            \/ (sp.time_enabled /\ sp.hard)
            \/ SoftBreakAtHead(sp.has_best, soft, sp.cur_depth)
            \/ sp.stop
         THEN sp' = [sp EXCEPT
                    !.pc = "done",
                    !.why = IF ~sp.keep /\ sp.cur_depth > sp.max_depth THEN "depth"
                            ELSE IF sp.time_enabled /\ sp.hard THEN "hard"
                            ELSE IF SoftBreakAtHead(sp.has_best, soft, sp.cur_depth)
                                 THEN "soft at head"
                            ELSE "stop"]
         ELSE LET centred == UseAspiration(sp.have_prev, sp.prev_score)
              IN sp' = [sp EXCEPT
                    !.pc = "asp",
                    !.depth_to_search = IF sp.cur_depth <= sp.max_depth
                                        THEN sp.cur_depth ELSE sp.max_depth,
                    !.window = ASP_WINDOW,
                    !.alpha = IF centred THEN sp.prev_score - ASP_WINDOW ELSE 0 - SCORE_INF,
                    !.beta = IF centred THEN sp.prev_score + ASP_WINDOW ELSE SCORE_INF,
                    !.iter = NoOut, !.ok = FALSE, !.in_window = FALSE,
                    !.last_has_best_move = FALSE, !.tries = 0]
    /\ UNCHANGED <<uvars, tvars, calc, cli>>

\* Lines 395-474: one pass of the aspiration loop, up to the next call.
id_aspiration ==
    /\ sp.pc = "asp" /\ sp.tries < ASP_TRIES
    /\ \E o \in FindBestMove(CanStop(sp), sp.hasMoves) :
         LET n == sp.ncalls + 1
             d == sp.depth_to_search
             ok == OkAfter(o.ret, o.stopped)
             it == IF o.wrote THEN [move |-> o.move, score |-> o.score, src |-> n]
                   ELSE sp.iter
             low == ok /\ it.score <= sp.alpha
             high == ok /\ ~low /\ it.score >= sp.beta
             retry == low \/ high
             inw == ok /\ ~retry
             w2 == Widen(sp.window)
             more == retry /\ sp.tries + 1 < ASP_TRIES
             sound == ~o.stopped /\ o.ret
             inside == sp.alpha < o.score /\ o.score < sp.beta
         IN sp' = [sp EXCEPT
               !.ncalls = n,
               !.calls[d].asp = @ + 1,
               !.calls[d].fails = IF sound /\ ~inside THEN @ + 1 ELSE @,
               !.completed = IF sound /\ inside THEN n ELSE @,
               !.ok = ok, !.iter = it,
               !.last_has_best_move = o.has_best_move,
               !.in_window = inw,
               !.window = IF retry THEN w2 ELSE @,
               !.alpha = IF retry
                         THEN (IF sp.have_prev THEN sp.prev_score - w2 ELSE 0 - SCORE_INF)
                         ELSE @,
               !.beta = IF retry
                        THEN (IF sp.have_prev THEN sp.prev_score + w2 ELSE SCORE_INF)
                        ELSE @,
               !.tries = IF retry THEN @ + 1 ELSE @,
               !.pc = IF more THEN "asp"
                      ELSE IF NeedFullWindow(ok, inw) THEN "full" ELSE "post"]
    /\ UNCHANGED <<uvars, tvars, calc, cli>>

\* Lines 474-521: the forced full-window re-search.
id_full_window ==
    /\ sp.pc = "full"
    /\ \E o \in FindBestMove(CanStop(sp), sp.hasMoves) :
         LET n == sp.ncalls + 1
             d == sp.depth_to_search
             ok == OkAfter(o.ret, o.stopped)
             sound == ~o.stopped /\ o.ret
         IN sp' = [sp EXCEPT
               !.ncalls = n,
               !.calls[d].full = @ + 1,
               !.completed = IF sound THEN n ELSE @,
               !.alpha = 0 - SCORE_INF, !.beta = SCORE_INF,
               !.ok = ok,
               !.iter = IF o.wrote THEN [move |-> o.move, score |-> o.score, src |-> n]
                        ELSE @,
               !.last_has_best_move = o.has_best_move,
               !.in_window = ok,
               !.pc = "post"]
    /\ UNCHANGED <<uvars, tvars, calc, cli>>

\* Lines 523-610: drop a failed iteration, or keep the completed one and
\* decide whether to go on.
id_post ==
    /\ sp.pc = "post"
    /\ IF ~sp.ok
       THEN sp' = [sp EXCEPT !.pc = "done", !.why = "not ok"]
       ELSE \E soft \in SoftExpired(sp) :
            LET hb == sp.last_has_best_move
                pc2 == IF SoftBreak(hb, soft) THEN "done"
                       ELSE IF sp.keep /\ sp.cur_depth >= sp.max_depth
                            THEN (IF sp.ext THEN "idle" ELSE "done")
                       ELSE IF sp.cur_depth < sp.max_depth THEN "head"
                       ELSE IF ~sp.keep THEN "done" ELSE "head"
            IN sp' = [sp EXCEPT
                  !.has_best = hb, !.best = sp.iter,
                  !.have_prev = TRUE, !.prev_score = sp.iter.score,
                  !.cur_depth = IF pc2 = "head" /\ sp.cur_depth < sp.max_depth
                                THEN @ + 1 ELSE @,
                  !.why = IF SoftBreak(hb, soft) THEN "soft after depth"
                          ELSE IF pc2 = "done" THEN "depth"
                          ELSE @,
                  !.pc = pc2]
    /\ UNCHANGED <<uvars, tvars, calc, cli>>

\* Lines 593-600: at the maximum depth of an infinite search, wait for stop.
id_idle_until_stop ==
    /\ sp.pc = "idle" /\ sp.stop
    /\ sp' = [sp EXCEPT !.pc = "done", !.why = "stop"]
    /\ UNCHANGED <<uvars, tvars, calc, cli>>

\* Lines 614-655: the result is filled from best_move / best_score / has_best.
id_result ==
    /\ sp.pc = "done"
    /\ sp' = [sp EXCEPT !.pc = "ret",
                        !.result = [has_best_move |-> sp.has_best,
                                    best_move |-> sp.best.move,
                                    score |-> sp.best.score,
                                    src |-> sp.best.src]]
    /\ UNCHANGED <<uvars, tvars, calc, cli>>

IDNext == \/ id_external_stop
          \/ id_hard_deadline
          \/ id_loop_head
          \/ id_aspiration
          \/ id_full_window
          \/ id_post
          \/ id_idle_until_stop
          \/ id_result

InitID == UciInit /\ TTIdle /\ calc = NoCalc /\ cli = NoCli /\ IDInit

SpecID == InitID /\ [][IDNext]_vars

\* C13: the search result is the move and score written by the last
\* find_best_move call that ran to the end without the stopped flag and
\* was accepted (inside its window, or the full-window re-search); it is
\* never what a stopped call or a failed aspiration attempt wrote, and
\* when no call completed the result has no best move.
C13_ResultFromCompleted ==
    sp.pc = "ret" =>
        /\ sp.result.src = sp.completed
        /\ sp.completed = 0 => ~sp.result.has_best_move
        /\ sp.result.has_best_move => sp.completed > 0

\* C13 witness: a search returned the result of an earlier iteration
\* although a later, stopped call had written its own move and score.
C13_Witness ==
    /\ sp.pc = "ret" /\ sp.result.has_best_move
    /\ sp.iter.src > sp.result.src
    /\ ~sp.ok /\ CanStop(sp)

\* C14: at every depth the root search runs at most five times in the
\* aspiration loop and at most once more with the full window, and the
\* full-window run happens only after five aspiration attempts that each
\* ran unstopped and failed low or high.
C14_BoundedResearch ==
    sp.pc # "none" =>
        \A d \in 1..MaxIterDepth :
            /\ sp.calls[d].asp <= ASP_TRIES
            /\ sp.calls[d].full <= 1
            /\ sp.calls[d].full = 1 =>
                   sp.calls[d].asp = ASP_TRIES /\ sp.calls[d].fails = ASP_TRIES

\* C14 witness: a depth was searched five times in the aspiration loop
\* and then once with the full window.
C14_Witness ==
    sp.pc # "none" /\ \E d \in 1..MaxIterDepth :
        sp.calls[d].asp = ASP_TRIES /\ sp.calls[d].full = 1

\* ---------------------------------------------------------------------
\* The command loop of main() (fast_engine_uci.cpp 895-1057) with
\* handle_setoption (128-376) and handle_position (380-423), no search
\* running and no engine created yet, so that handle_stop has nothing to
\* stop.  A line is a record: the keyword main() matches and the words
\* after it; a number is the list of its characters.
\* ---------------------------------------------------------------------
MaxCmds == 2

DigitSet == {DigitChar[i] : i \in 1..10}

RECURSIVE LeadDigits(_)
LeadDigits(cs) == IF Len(cs) = 0 \/ cs[1] \notin DigitSet THEN <<>>
                  ELSE <<cs[1]>> \o LeadDigits(Tail(cs))

\* std::stoi: optional sign, then the leading digits; throws
\* std::invalid_argument when there is no digit and std::out_of_range
\* when the number does not fit an int.
stoi(cs) ==
    LET neg == Len(cs) > 0 /\ cs[1] = "-"
        body == IF Len(cs) > 0 /\ cs[1] \in {"-", "+"} THEN Tail(cs) ELSE cs
        ds == LeadDigits(body)
        n == Len(ds)
        head9 == IF n = 10 THEN ParseDigits(SubSeq(ds, 1, 9)) ELSE 0
        last1 == IF n = 10 THEN DigitVal(ds[10]) ELSE 0
        fits == \/ n < 10
                \/ n = 10 /\ (head9 < 214748364 \/ (head9 = 214748364 /\ last1 <= (IF neg THEN 8 ELSE 7)))
    IN IF n = 0 THEN [throws |-> "invalid_argument", value |-> 0]
       ELSE IF ~fits THEN [throws |-> "out_of_range", value |-> 0]
       ELSE [throws |-> "no", value |-> IF neg THEN 0 - ParseDigits(ds) ELSE ParseDigits(ds)]

\* The spin options of handle_setoption that the claims name.
SpinOptions == {"SearchDepth", "MaxDepthTimed", "MoveOverhead", "Hash", "RazorMarginD2",
                "GoodCaptureSEEThreshold", "BadCapturePenalty", "KillerBonus1",
                "KillerBonus2", "CounterMoveBonus", "HistoryBonusMult",
                "ContinuationBonusMult", "CaptureHistoryMult"}

\* The two multipliers held as double are kept in hundredths.
Hundredths(name) == IF name \in {"HistoryBonusMult", "ContinuationBonusMult"} THEN 100 ELSE 1

\* EngineConfig's defaults (config.hpp 9-79), by option name.
DefaultConfig ==
    [name \in SpinOptions |->
        CASE name = "SearchDepth" -> 3
          [] name = "MaxDepthTimed" -> 64
          [] name = "MoveOverhead" -> 20
          [] name = "Hash" -> 256
          [] name = "RazorMarginD2" -> 250
          [] name = "GoodCaptureSEEThreshold" -> 0
          [] name = "BadCapturePenalty" -> 0
          [] name = "KillerBonus1" -> 90000
          [] name = "KillerBonus2" -> 80000
          [] name = "CounterMoveBonus" -> 10000
          [] name = "HistoryBonusMult" -> 96
          [] name = "ContinuationBonusMult" -> 152
          [] name = "CaptureHistoryMult" -> 1]

\* What handle_setoption makes of the number v for each option
\* (lines 164, 218, 257, 266, 275, 284, 293, 302, 311, 320, 349, 358, 363).
StoredValue(name, v) ==
    CASE name = "SearchDepth" -> v
      [] name = "MaxDepthTimed" -> Max(1, v)
      [] name = "MoveOverhead" -> Max(0, v)
      [] name = "Hash" -> Max(1, v)
      [] name = "RazorMarginD2" -> Max(0, Min(1000, v))
      [] name = "GoodCaptureSEEThreshold" -> Max(0 - 500, Min(500, v))
      [] name = "BadCapturePenalty" -> Max(0, Min(2000, v))
      [] name = "KillerBonus1" -> Max(0, Min(200000, v))
      [] name = "KillerBonus2" -> Max(0, Min(200000, v))
      [] name = "CounterMoveBonus" -> Max(0, Min(100000, v))
      [] name = "HistoryBonusMult" -> Max(0, Min(8, v)) * 100
      [] name = "ContinuationBonusMult" -> Max(0, Min(8, v)) * 100
      [] name = "CaptureHistoryMult" -> Max(0, Min(8, v))

\* The "min .. max" of the option lines sent on "uci" (lines 916-946).
Advertised(name) ==
    CASE name = "SearchDepth" -> [min |-> 1, max |-> 20]
      [] name = "MaxDepthTimed" -> [min |-> 1, max |-> 128]
      [] name = "MoveOverhead" -> [min |-> 0, max |-> 2000]
      [] name = "Hash" -> [min |-> 1, max |-> 4096]
      [] name = "RazorMarginD2" -> [min |-> 0, max |-> 1000]
      [] name = "GoodCaptureSEEThreshold" -> [min |-> 0 - 100, max |-> 100]
      [] name = "BadCapturePenalty" -> [min |-> 0, max |-> 250]
      [] name = "KillerBonus1" -> [min |-> 0, max |-> 150000]
      [] name = "KillerBonus2" -> [min |-> 0, max |-> 150000]
      [] name = "CounterMoveBonus" -> [min |-> 0, max |-> 30000]
      [] name = "HistoryBonusMult" -> [min |-> 0, max |-> 3]
      [] name = "ContinuationBonusMult" -> [min |-> 0, max |-> 3]
      [] name = "CaptureHistoryMult" -> [min |-> 0, max |-> 3]

\* handle_setoption(line, config, engine) with engine == nullptr:
\* the new config, or the exception that leaves the function.
handle_setoption_line(line, cfg) ==
    IF ~line.hasName THEN [throws |-> "no", config |-> cfg]
    ELSE IF line.name \notin SpinOptions THEN [throws |-> "no", config |-> cfg]
    ELSE IF line.value = <<>> THEN [throws |-> "no", config |-> cfg]
    ELSE LET r == stoi(line.value)
         IN IF r.throws # "no" THEN [throws |-> r.throws, config |-> cfg]
            ELSE [throws |-> "no",
                  config |-> [cfg EXCEPT ![line.name] = StoredValue(line.name, r.value)]]

\* chess::Board(fen) on a text that is no position: the constructor
\* sees the text only, never the board it is about to replace.  What it
\* builds (chess.hpp is not part of the sources) is fixed per run.
BrokenBoard == Cardinality(Positions)
FenBoards == Positions \cup {BrokenBoard}

\* handle_position(line, board) for a line without a "moves" part.
handle_position_line(line, brd, badFen) ==
    IF line.token = "startpos" THEN startpos
    ELSE IF line.token = "fen"
         THEN IF line.fields < 6 THEN brd
              ELSE IF line.valid THEN line.pos ELSE badFen
    ELSE brd

ValueTexts == {<<>>, <<"a", "b", "c">>, <<"5">>, <<"-", "7">>,
               <<"1", "8", "0", "0", "0", "0">>, <<"1", "2", "x">>,
               <<"9", "9", "9", "9", "9", "9", "9", "9", "9", "9", "9">>}

SetoptionLines ==
    {[cmd |-> "setoption", hasName |-> FALSE, name |-> "", value |-> <<>>]}
    \cup {[cmd |-> "setoption", hasName |-> TRUE, name |-> n, value |-> v] :
            n \in SpinOptions \cup {"Foo"}, v \in ValueTexts}

PositionLines ==
    {[cmd |-> "position", token |-> t, fields |-> 0, valid |-> FALSE, pos |-> 0] :
        t \in {"startpos", "bogus", ""}}
    \cup {[cmd |-> "position", token |-> "fen", fields |-> k, valid |-> FALSE, pos |-> 0] :
            k \in {0, 5, 6}}
    \cup {[cmd |-> "position", token |-> "fen", fields |-> 6, valid |-> TRUE, pos |-> p] :
            p \in Positions}

OtherLines == {[cmd |-> c] : c \in {"uci", "isready", "unknown"}}

CliInit ==
    cli \in {[pc |-> "read", alive |-> TRUE, n |-> 0,
              config |-> DefaultConfig, board |-> startpos, out |-> <<>>,
              badFen |-> b,
              line |-> [cmd |-> "none"],
              before |-> [config |-> DefaultConfig, board |-> startpos]] :
                b \in FenBoards}

CliReady == cli.pc = "read" /\ cli.alive /\ cli.n < MaxCmds

Took(line) == [cli EXCEPT !.n = @ + 1, !.line = line, !.out = <<>>,
                          !.before = [config |-> cli.config, board |-> cli.board]]

\* Lines 958-963.
cmd_setoption(line) ==
    /\ CliReady
    /\ LET r == handle_setoption_line(line, cli.config)
       IN cli' = [Took(line) EXCEPT !.config = r.config,
                                    !.alive = (r.throws = "no")]
    /\ UNCHANGED <<uvars, tvars, sp, calc>>

\* Lines 978-983.
cmd_position(line) ==
    /\ CliReady
    /\ cli' = [Took(line) EXCEPT !.board = handle_position_line(line, cli.board, cli.badFen)]
    /\ UNCHANGED <<uvars, tvars, sp, calc>>

\* Lines 902-957 and the fall through of the chain for any other word.
cmd_other(line) ==
    /\ CliReady
    /\ cli' = [Took(line) EXCEPT
                 !.out = CASE line.cmd = "uci" -> <<"id", "options", "uciok">>
                           [] line.cmd = "isready" -> <<"readyok">>
                           [] OTHER -> <<>>]
    /\ UNCHANGED <<uvars, tvars, sp, calc>>

CmdNext == \/ \E line \in SetoptionLines : cmd_setoption(line)
           \/ \E line \in PositionLines : cmd_position(line)
           \/ \E line \in OtherLines : cmd_other(line)

InitCmd == UciInit /\ TTIdle /\ sp = NoSearch /\ calc = NoCalc /\ CliInit

SpecCmd == InitCmd /\ [][CmdNext]_vars

\* The lines the claim calls malformed.
Malformed(line) ==
    \/ line.cmd = "unknown"
    \/ line.cmd = "setoption" /\ ~line.hasName
    \/ /\ line.cmd = "setoption" /\ line.hasName /\ line.name \in SpinOptions
       /\ (line.value = <<>> \/ stoi(line.value).throws = "invalid_argument")
    \/ line.cmd = "position" /\ line.token \notin {"startpos", "fen"}

\* C21: after a malformed line (unknown command, setoption without name,
\* a spin option with a missing or non-numeric value, position with an
\* unknown keyword) the driver has sent nothing, is still running and
\* reading, and its board and config are what they were.
C21_MalformedIgnored ==
    cli.pc = "read" /\ Malformed(cli.line) =>
        /\ cli.out = <<>>
        /\ cli.alive
        /\ cli.config = cli.before.config
        /\ cli.board = cli.before.board

\* C22: a position fen command whose FEN is illegal (fewer than six
\* fields, or six fields that are no position) leaves the board as it was.
C22_IllegalFenKeepsBoard ==
    /\ cli.pc = "read" /\ cli.line.cmd = "position" /\ cli.line.token = "fen"
    /\ ~cli.line.valid
    => cli.board = cli.before.board

InRange(name, v) ==
    /\ Advertised(name).min * Hundredths(name) <= v
    /\ v <= Advertised(name).max * Hundredths(name)

\* C24: after any sequence of setoption commands every option value in
\* the config lies inside the range advertised for the option in the uci
\* listing.
C24_ConfigInRange ==
    cli.pc = "read" => \A name \in SpinOptions : InRange(name, cli.config[name])

(***************************************************************************)
(* Further properties of the transposition table (SpecTT).                 *)
(***************************************************************************)
\* the slot of the entry's bucket that holds the entry's signature at the
\* current generation (0 when there is none), and what it holds
SlotOf(t, entry) ==
    LET b == t.table_[BucketIndex(t, entry.key)]
    IN FirstSlot({s \in 1..CLUSTER_SIZE : Matches(t, b[s], key_signature16(entry.key))})

Held(t, entry) == t.table_[BucketIndex(t, entry.key)][SlotOf(t, entry)]

\* store(entry) on table t writes the entry: it finds no slot of the entry's
\* signature, or one that the test of step 1 lets it overwrite
Writes(t, entry) ==
    SlotOf(t, entry) = 0 \/ replace(Held(t, entry), entry)

IsMate(value) == Abs(value) >= MATE_BOUND

\* the plies of the nodes that store a score
Plies == 0..MaxMatePly

OthersKept(t, u, entry, s) ==
    /\ DOMAIN u.table_ = DOMAIN t.table_
    /\ \A b \in DOMAIN t.table_ : \A r \in 1..CLUSTER_SIZE :
          (b # BucketIndex(t, entry.key) \/ r # s) => u.table_[b][r] = t.table_[b][r]

\* slot pe holds the entry as store writes it
HoldsEntry(pe, entry) ==
    /\ pe.key16 = key_signature16(entry.key)
    /\ pe.depth = (IF entry.depth > DEPTH_MAX THEN DEPTH_MAX
                   ELSE IF entry.depth < 0 THEN 0 ELSE entry.depth)
    /\ pe.flag = entry.flag
    /\ pe.value_cp = entry.value
    /\ pe.hasMove = (IF entry.hasMove THEN 1 ELSE 0)
    /\ pe.move16 = (IF entry.hasMove THEN entry.bestMove ELSE NO_MOVE)

\* C27: a store that finds a current-generation slot of the entry's signature
\* overwrites it iff the new depth is greater, or the depths are equal and the
\* new bound is EXACT while the old one is not; otherwise depth, bound and
\* value of the slot stay, and the best move is filled in only if the old
\* entry had none.  No other slot changes.
C27_SameSignatureUpdate ==
    [][last'.op = "store" /\ last'.step = 1 =>
          LET entry == last'.entry
              s == SlotOf(tt, entry)
              old == Held(tt, entry)
              new == tt'.table_[BucketIndex(tt, entry.key)][s]
              over == \/ entry.depth > old.depth
                      \/ entry.depth = old.depth /\ entry.flag = TT_EXACT
                                                 /\ old.flag # TT_EXACT
          IN /\ OthersKept(tt, tt', entry, s)
             /\ new.gen = tt.gen_
             /\ over => HoldsEntry(new, entry)
             /\ ~over => /\ new.depth = old.depth
                         /\ new.flag = old.flag
                         /\ new.value_cp = old.value_cp
                         /\ new.key16 = old.key16
                         /\ IF old.hasMove = 0 /\ entry.hasMove
                            THEN new.hasMove = 1 /\ new.move16 = entry.bestMove
                            ELSE new.hasMove = old.hasMove /\ new.move16 = old.move16]_vars

\* C27: a shallower entry with a move was stored over a deeper one without:
\* the slot kept its depth and value and took the move.
C27_Witness ==
    /\ last.op = "store"
    /\ last.step = 1
    /\ last.entry.hasMove
    /\ SlotOf(tt, last.entry) # 0
    /\ Held(tt, last.entry).depth > last.entry.depth
    /\ Held(tt, last.entry).value_cp # last.entry.value
    /\ Held(tt, last.entry).hasMove = 1
    /\ Held(tt, last.entry).move16 = last.entry.bestMove

IsFree(t, pe) == pe.gen # t.gen_ \/ pe.depth < 0

\* 4*depth + 2*(bound = EXACT) + 1*has_move
Worth(pe) ==
    4 * pe.depth + (IF pe.flag = TT_EXACT THEN 2 ELSE 0) + (IF pe.hasMove # 0 THEN 1 ELSE 0)

\* C28: a store that finds no current-generation slot of the entry's signature
\* writes into a stale or empty slot when the bucket has one, and no other
\* slot changes; only when all four slots are valid and current does it
\* overwrite one, a slot of least 4*depth + 2*(bound = EXACT) + has_move,
\* the first of them, whatever the depth of the new entry.
C28_SlotChoice ==
    [][last'.op = "store" /\ last'.step \in {2, 3} =>
          LET entry == last'.entry
              b == tt.table_[BucketIndex(tt, entry.key)]
              s == SlotOf(tt', entry)
              free == {r \in 1..CLUSTER_SIZE : IsFree(tt, b[r])}
          IN /\ s # 0
             /\ OthersKept(tt, tt', entry, s)
             /\ HoldsEntry(Held(tt', entry), entry)
             /\ (last'.step = 2) = (free # {})
             /\ free # {} => s \in free
             /\ free = {} =>
                   /\ \A r \in 1..CLUSTER_SIZE : Worth(b[s]) <= Worth(b[r])
                   /\ \A r \in 1..(s - 1) : Worth(b[r]) > Worth(b[s])]_vars

\* C28: an entry was stored into a bucket of four valid current entries, over
\* one that is not in the first slot.
C28_Witness ==
    /\ last.op = "store"
    /\ last.step = 3
    /\ SlotOf(tt, last.entry) > 1
    /\ \A r \in 1..CLUSTER_SIZE : ~IsFree(tt, tt.table_[BucketIndex(tt, last.entry.key)][r])

GenInRange == tt.gen_ \in 1..(GEN_WRAP - 1)

CurrentDepthInRange ==
    \A b \in DOMAIN tt.table_ : \A s \in 1..CLUSTER_SIZE :
        tt.table_[b][s].gen = tt.gen_ => tt.table_[b][s].depth \in 0..DEPTH_MAX

\* C29: clear() adds one to the generation and touches no slot, except at
\* generation 255, where the 8-bit counter wraps: then every slot is wiped to
\* empty and the generation is 1.  After any sequence of resize, clear and
\* store the generation is in 1..255 and every slot of the current
\* generation has a depth in 0..127.
C29_ClearAndGeneration ==
    /\ [](GenInRange /\ CurrentDepthInRange)
    /\ [][last'.op = "clear" =>
            IF tt.gen_ = GEN_WRAP - 1
            THEN /\ tt'.gen_ = 1
                 /\ DOMAIN tt'.table_ = DOMAIN tt.table_
                 /\ \A b \in DOMAIN tt'.table_ : \A s \in 1..CLUSTER_SIZE :
                       tt'.table_[b][s] = PackedEntry
            ELSE /\ tt'.gen_ = tt.gen_ + 1
                 /\ tt'.table_ = tt.table_]_vars

\* C29: the generation has wrapped: clear() at generation 255 left an empty
\* table at generation 1, and an entry deeper than 127 was stored since.
C29_Witness ==
    /\ tt.gen_ = 1
    /\ last.op = "store"
    /\ last.entry.depth > DEPTH_MAX
    /\ SlotOf(tt, last.entry) # 0
    /\ Held(tt, last.entry).depth = DEPTH_MAX

(***************************************************************************)
(* build_pv_uci (engine.cpp 85-128): the principal variation read back     *)
(* from the table.  The board is a position of a small game: positions     *)
(* 0..PvLast in a row, move 1 steps to the next position, move 2 returns   *)
(* to position 0, move 3 is legal nowhere.  The table is seen through      *)
(* probe: for each hash, the best move it returns, NO_MOVE for no hit or   *)
(* a hit without a move.                                                   *)
(***************************************************************************)
PvLast == 18
PV_MAX_LEN == 16

PvPositions == 0..PvLast
PvMoves == 1..3

\* chess::movegen::legalmoves
pv_legalmoves(pos) ==
    (IF pos < PvLast THEN {1} ELSE {}) \cup (IF pos > 0 THEN {2} ELSE {})

\* Board::makeMove
pv_makeMove(pos, mv) ==
    IF mv = 1 THEN (IF pos < PvLast THEN pos + 1 ELSE pos) ELSE 0

\* Board::hash: the position's own number, save for the last position, whose
\* hash collides with that of position 3
hash(pos) == IF pos = PvLast THEN 3 ELSE pos

\* a legality test that accepts every move but NO_MOVE
is_legal_move_any(pos, mv) == mv # NO_MOVE

\* is_legal_move
is_legal_move(pos, mv) == mv # NO_MOVE /\ mv \in pv_legalmoves(pos)

\* tables: move 1 below hash k, move m at hash k, nothing above
PvTable(k, m) ==
    [h \in PvPositions |-> IF h < k THEN 1 ELSE IF h = k THEN m ELSE NO_MOVE]

PvInputs ==
    { [root |-> r, table |-> PvTable(k, m), root_best |-> rb, max_len |-> PV_MAX_LEN] :
        r \in {0, 1, 4}, k \in PvPositions, m \in {NO_MOVE} \cup PvMoves,
        rb \in {NO_MOVE} \cup PvMoves }

PvInit ==
    calc \in { [fn |-> "build_pv_uci", pc |-> "root", in |-> in, root |-> in.root,
                written |-> 0, seen |-> {}, pv |-> <<>>, from |-> <<>>,
                stopped |-> "none"] : in \in PvInputs }

PvRunning == calc.fn = "build_pv_uci"

\* lines 93-106: the root move
pv_root ==
    /\ PvRunning /\ calc.pc = "root"
    /\ calc' = IF calc.in.root_best # NO_MOVE /\ is_legal_move(calc.root, calc.in.root_best)
               THEN LET nxt == pv_makeMove(calc.root, calc.in.root_best)
                    IN [calc EXCEPT !.pc = "loop",
                                    !.pv = <<calc.in.root_best>>,
                                    !.from = <<calc.root>>,
                                    !.written = 1,
                                    !.root = nxt,
                                    !.seen = {hash(nxt)}]
               ELSE [calc EXCEPT !.pc = "done", !.stopped = "no root move"]
    /\ UNCHANGED <<uvars, tvars, sp, cli>>

\* lines 108-125: one turn of the loop
pv_step ==
    /\ PvRunning /\ calc.pc = "loop"
    /\ LET mv == calc.in.table[hash(calc.root)]
           nxt == pv_makeMove(calc.root, mv)
       IN calc' =
            IF ~(calc.written < calc.in.max_len)
            THEN [calc EXCEPT !.pc = "return", !.stopped = "max_len"]
            ELSE IF mv = NO_MOVE
            THEN [calc EXCEPT !.pc = "return", !.stopped = "no entry"]
            ELSE IF ~is_legal_move(calc.root, mv)
            THEN [calc EXCEPT !.pc = "return", !.stopped = "illegal"]
            ELSE IF hash(nxt) \in calc.seen
            THEN [calc EXCEPT !.pc = "return", !.stopped = "seen", !.root = nxt]
            ELSE [calc EXCEPT !.pv = Append(calc.pv, mv),
                              !.from = Append(calc.from, calc.root),
                              !.written = calc.written + 1,
                              !.root = nxt,
                              !.seen = calc.seen \cup {hash(nxt)}]
    /\ UNCHANGED <<uvars, tvars, sp, cli>>

\* line 127
pv_return ==
    /\ PvRunning /\ calc.pc = "return"
    /\ calc' = [calc EXCEPT !.pc = "done"]
    /\ UNCHANGED <<uvars, tvars, sp, cli>>

PvNext ==
    \/ pv_root
    \/ pv_step
    \/ pv_return

InitPv == UciInit /\ TTIdle /\ sp = NoSearch /\ cli = NoCli /\ PvInit
\* a call that has begun runs on: the loop has no wait in it
SpecPv == InitPv /\ [][PvNext]_vars /\ WF_vars(PvNext)

\* the moves written so far are a line of play from the root: each is legal
\* where it is played, and is played where the one before it leads
PvIsLine ==
    /\ Len(calc.from) = Len(calc.pv)
    /\ \A i \in 1..Len(calc.pv) :
          /\ calc.pv[i] \in pv_legalmoves(calc.from[i])
          /\ calc.from[i] = IF i = 1 THEN calc.in.root
                            ELSE pv_makeMove(calc.from[i - 1], calc.pv[i - 1])

\* C25: build_pv_uci returns, whatever the table holds (chains that run in a
\* circle included); what it has written is at any time at most 16 moves,
\* each legal in the position reached by the moves before it.
C25_PvTerminatesLegal ==
    /\ <>(calc.pc = "done")
    /\ [](Len(calc.pv) <= PV_MAX_LEN /\ PvIsLine)

\* C25: the walk has returned after it came back to a position it had seen
\* with more than one move written, and in another call after 16 moves.
C25_Witness ==
    /\ calc.pc = "done"
    /\ \/ calc.stopped = "seen" /\ Len(calc.pv) > 1
       \/ calc.stopped = "max_len" /\ Len(calc.pv) = PV_MAX_LEN

(***************************************************************************)
(* Further properties of iterative deepening (SpecID).                     *)
(***************************************************************************)
SoftBroken == sp.pc # "none" /\ sp.why \in {"soft at head", "soft after depth"}

\* C26: the deepening loop is left on the soft deadline only when a best move
\* from a completed iteration exists: at either soft-deadline break has_best is
\* set and the best move is the one written by the last completed call.
C26_SoftBreakHasBest ==
    SoftBroken => /\ sp.has_best
                  /\ sp.completed > 0
                  /\ sp.best.src = sp.completed
                  /\ sp.best.move # NO_MOVE

\* C26: the loop was left on the soft deadline at the head of its third turn.
C26_Witness ==
    /\ sp.pc = "ret"
    /\ sp.why = "soft at head"
    /\ sp.cur_depth = 3
    /\ sp.result.has_best_move

\* the half-width of the window of the attempt after k failed ones
RECURSIVE HalfWidth(_)
HalfWidth(k) == IF k = 0 THEN ASP_WINDOW ELSE 2 * HalfWidth(k - 1)

\* C30: the first iteration, and every iteration whose previous score is a
\* mate score, is searched with the full window; every other attempt is
\* searched with the window of half-width 50, 100, 200, 400, 800 (doubled
\* after each fail-low or fail-high) centred on the previous score.
C30_AspirationWindows ==
    sp.pc = "asp" =>
        IF ~sp.have_prev \/ Abs(sp.prev_score) >= MATE_BOUND
        THEN sp.alpha = 0 - SCORE_INF /\ sp.beta = SCORE_INF
        ELSE /\ sp.tries \in 0..(ASP_TRIES - 1)
             /\ sp.alpha = sp.prev_score - HalfWidth(sp.tries)
             /\ sp.beta = sp.prev_score + HalfWidth(sp.tries)

\* C30: the fifth attempt of an iteration is about to be searched with the
\* window of half-width 800 around the previous score.
C30_Witness ==
    /\ sp.pc = "asp"
    /\ sp.have_prev
    /\ sp.tries = ASP_TRIES - 1
    /\ sp.beta - sp.alpha = 1600
    /\ sp.alpha = sp.prev_score - 800

(***************************************************************************)
(* The table: the best move of a slot, the frame of store and probe, and   *)
(* the signatures of a bucket (SpecTT).                                    *)
(***************************************************************************)
\* C36 as stated: a store to a current slot of the same signature never
\* removes its best move: if the slot had a move before the store, probe of
\* the key returns has_move afterwards.
C36_AsStated ==
    [][last'.op = "store" /\ last'.step = 1 /\ Held(tt, last'.entry).hasMove = 1
          => probe(tt', last'.entry.key).hasMove]_vars

\* C36 as amended: a store to a current slot of the same signature that holds
\* a move keeps that move when it does not overwrite the slot; when it
\* overwrites (deeper, or as deep and EXACT over a bound) the slot takes the
\* move of the new entry, and has none if the new entry has none.
C36_MoveKeptUnlessOverwritten ==
    [][last'.op = "store" /\ last'.step = 1 /\ Held(tt, last'.entry).hasMove = 1 =>
          LET entry == last'.entry
              old == Held(tt, entry)
              out == probe(tt', entry.key)
              over == \/ entry.depth > old.depth
                      \/ entry.depth = old.depth /\ entry.flag = TT_EXACT
                                                 /\ old.flag # TT_EXACT
          IN /\ out.hit
             /\ over => /\ out.hasMove = entry.hasMove
                        /\ out.bestMove = (IF entry.hasMove THEN entry.bestMove ELSE NO_MOVE)
             /\ ~over => out.hasMove /\ out.bestMove = old.move16]_vars

\* C36: a deeper entry without a move has been stored over a slot of its
\* signature: probe returns the new depth and value, and no move.
C36_Witness ==
    /\ last.op = "store"
    /\ last.step = 1
    /\ ~last.entry.hasMove
    /\ probe(tt, last.entry.key).hit
    /\ probe(tt, last.entry.key).depth = last.entry.depth
    /\ probe(tt, last.entry.key).value = last.entry.value
    /\ ~probe(tt, last.entry.key).hasMove

\* key & (buckets - 1), the bucket count being a power of two
LowBitsIndex(t, key) == key.lo % (t.mask_ + 1)

Slots(t) == {<<b, s>> : b \in DOMAIN t.table_, s \in 1..CLUSTER_SIZE}

Changed(t, u) == {x \in Slots(t) : u.table_[x[1]][x[2]] # t.table_[x[1]][x[2]]}

\* C37: store changes at most one slot, a slot of the bucket
\* key & (buckets - 1); the other buckets, the bucket count, the capacity and
\* the generation stay; probe changes nothing of the table.
C37_StoreFrame ==
    [][/\ last'.op = "store" =>
            /\ DOMAIN tt'.table_ = DOMAIN tt.table_
            /\ tt'.mask_ = tt.mask_
            /\ tt'.capacity_entries_ = tt.capacity_entries_
            /\ tt'.gen_ = tt.gen_
            /\ Cardinality(Changed(tt, tt')) <= 1
            /\ \A x \in Changed(tt, tt') : x[1] = LowBitsIndex(tt, last'.entry.key)
       /\ last'.op = "probe" => tt' = tt]_vars

\* C37: in a table of two buckets an entry whose key ends in 1 has been stored
\* into bucket 1, and bucket 0 holds entries.
C37_Witness ==
    /\ last.op = "store"
    /\ tt.mask_ = 1
    /\ last.entry.key.lo = 1
    /\ \E s \in 1..CLUSTER_SIZE : HoldsEntry(tt.table_[1][s], last.entry)
    /\ \E s \in 1..CLUSTER_SIZE : ~IsFree(tt, tt.table_[0][s])

\* C40: no bucket holds two valid slots of the current generation with the
\* same signature.
C40_OneSlotPerSignature ==
    \A b \in DOMAIN tt.table_ : \A s, r \in 1..CLUSTER_SIZE :
        (s # r /\ ~IsFree(tt, tt.table_[b][s]) /\ ~IsFree(tt, tt.table_[b][r]))
            => tt.table_[b][s].key16 # tt.table_[b][r].key16

\* C40: an entry was stored into a bucket that held its signature already,
\* among four valid current slots, and the bucket holds the signature once.
C40_Witness ==
    /\ last.op = "store"
    /\ last.step = 1
    /\ LET b == tt.table_[BucketIndex(tt, last.entry.key)]
       IN /\ \A s \in 1..CLUSTER_SIZE : ~IsFree(tt, b[s])
          /\ Cardinality({s \in 1..CLUSTER_SIZE :
                            b[s].key16 = key_signature16(last.entry.key)}) = 1

(***************************************************************************)
(* Further properties of the pure functions (SpecFn).                      *)
(***************************************************************************)
\* C35: whenever compute_time_budget returns an enabled budget, it has
\* 0 <= soft_ms <= hard_ms, whatever the build makes of an int overflow.
C35_BudgetOrdered ==
    (calc.fn = "compute_time_budget" /\ calc.out.enabled)
        => 0 <= calc.out.soft_ms /\ calc.out.soft_ms <= calc.out.hard_ms

\* types.hpp 20-23
is_mate_score(s) == s >= MATE_BOUND \/ s <= 0 - MATE_BOUND

\* C39: a score is printed as "score mate k" exactly when is_mate_score holds
\* of it, and as "score cp" otherwise.
C39_FormatterAgrees ==
    Printed => /\ calc.out[1] = "score"
               /\ calc.out[2] \in {"mate", "cp"}
               /\ (calc.out[2] = "mate") = is_mate_score(calc.score)

(***************************************************************************)
(* Further properties of build_pv_uci (SpecPv).                            *)
(***************************************************************************)
\* the positions of the line written so far: the root, then the position
\* after each move
PvLine ==
    IF Len(calc.pv) = 0 THEN <<calc.in.root>>
    ELSE Append(calc.from, pv_makeMove(calc.from[Len(calc.from)], calc.pv[Len(calc.pv)]))

\* C38: no position hash occurs twice along the line written, the position
\* the line starts from included.
C38_NoRepeatedPosition ==
    \A i, j \in 1..Len(PvLine) : i # j => hash(PvLine[i]) # hash(PvLine[j])

(***************************************************************************)
(* Further properties of the driver and the worker (Spec).                 *)
(***************************************************************************)
FlagsClear == ~w.stop /\ w.stop_reason = "None" /\ ~w.suppress_bestmove

\* the driver is inside the stop-and-join of handle_stop or start_search_async
InStopSequence == dpc \in {"st_suppress", "st_request", "st_join"}

\* C34: stop, stop_reason and suppress_bestmove are raised only inside a
\* stop-and-join aimed at the worker that was current when the command came,
\* and are clear again when it has returned: at the latest when
\* start_search_async creates the next thread, which therefore begins with the
\* three flags clear.  A worker leaves its search on the stop flag only if a
\* command that stops it was read while it was the current worker.
C34_FlagsScoped ==
    /\ FlagsClear \/ InStopSequence \/ dpc = "ss_spawn"
    /\ InStopSequence => joinable /\ LiveThreads \subseteq {w.th}
    /\ dpc = "ss_spawn" => LiveThreads = {}
    /\ \A i \in ThreadIds :
          /\ (Running(i) /\ ~InStopSequence) => FlagsClear
          /\ thr[i].endCause = "stop" =>
                 thr[i].stopReq \/ thr[i].internalReq \/ thr[i].stopBy = "ponderhit"

\* C34: a search started after the stop-and-join of a suppressed one has run
\* to its depth limit and printed its bestmove.
C34_Witness ==
    \E i \in ThreadIds :
        /\ thr[i].afterJoin
        /\ thr[i].pc = "done"
        /\ thr[i].endCause = "depth"
        /\ thr[i].bm = 1
        /\ FlagsClear

\* the board handle_ponderhit leaves for the replacement search
SyncedBoard ==
    IF dloc.ponder_move # NO_MOVE /\ dloc.ponder_move \in Range(legalmoves(board))
    THEN makeMove(board, dloc.ponder_move) ELSE board

\* C33: the search that replaces a ponder search on ponderhit starts from the
\* position the ponder search was searching: while handle_ponderhit stops the
\* ponder worker, the board it is about to hand on is that worker's board, and
\* the replacement searches the driver's board.
C33_SamePosition ==
    /\ (dcmd.name = "ponderhit" /\ (InStopSequence \/ dpc = "hs_begin")) =>
            thr[w.th].search_board = SyncedBoard
    /\ \A i \in ThreadIds :
          (thr[i].viaPonderhit /\ Running(i) /\ dpc = "idle") => thr[i].search_board = board

\* a go infinite / go ponder search without depth limit on a position with legal moves
Unbounded(i) ==
    /\ thr[i].pc # "none"
    /\ thr[i].limits.depth <= 0
    /\ thr[i].limits.infinite \/ thr[i].limits.ponder
    /\ legalmoves(thr[i].search_board) # <<>>

\* C31: a go infinite or go ponder search without depth limit, on a position with
\* legal moves, leaves search_position only by an external stop that was requested
\* for it, and prints a bestmove only after a stop command, also after the
\* maximum depth has been completed.
C31_SearchesUntilStopped ==
    \A i \in ThreadIds :
        Unbounded(i) =>
            /\ thr[i].pc \notin {"loop", "iter", "idle"} =>
                   /\ thr[i].endCause = "stop"
                   /\ thr[i].stopReq \/ thr[i].internalReq \/ thr[i].stopBy = "ponderhit"
            /\ thr[i].bm > 0 => thr[i].stopReq

\* C31 witness: an unbounded search has completed its maximum depth and idles, no
\* stop requested; nothing has been printed as bestmove
C31_Witness ==
    \E i \in ThreadIds :
        /\ Unbounded(i) /\ thr[i].pc = "idle" /\ ~w.stop
        /\ thr[i].cur_depth = MaxDepthOf(thr[i].limits, Stm(i))
        /\ thr[i].infos = thr[i].cur_depth /\ thr[i].bm = 0

\* C32: the iteration callback runs once per accepted iteration of a search: the
\* k-th info line of a search reports depth k, no depth above the maximum depth is
\* reported, the step is not one that ends the search by a stop, and the search
\* has printed no bestmove yet.
C32_InfoPerCompletedDepth ==
    [][\A i \in ThreadIds :
          thr'[i].infos > thr[i].infos =>
              /\ thr[i].pc = "iter"
              /\ thr'[i].infos = thr[i].infos + 1
              /\ Min(thr[i].cur_depth, MaxDepthOf(thr[i].limits, Stm(i))) = thr'[i].infos
              /\ thr'[i].infos <= MaxDepthOf(thr[i].limits, Stm(i))
              /\ thr'[i].endCause # "stop"
              /\ thr[i].bm = 0 /\ thr'[i].bm = 0]_vars

\* C32 witness: a search was stopped inside its second iteration after the info
\* line of depth 1, and printed its bestmove after that
C32_Witness ==
    \E i \in ThreadIds :
        /\ thr[i].pc = "done" /\ thr[i].bm = 1 /\ thr[i].endCause = "stop"
        /\ thr[i].cur_depth = 2 /\ thr[i].infos = 1


====
